---- MODULE Spec2Model ----
(***************************************************************************)
(* Model of the registry synchronisation command of mexty-cli              *)
(* (src/src/commands/sync.ts): fetch of the registry snapshot, synthesis   *)
(* of the generated modules, and their materialisation in the mext-block   *)
(* package.                                                                *)
(*                                                                         *)
(* Strings are sequences of one-character strings, so that escaping and    *)
(* literal parsing are computed character by character.                    *)
(***************************************************************************)
EXTENDS Integers, Sequences, FiniteSets, TLC

(***************************************************************************)
(* Bounds of the model                                                     *)
(***************************************************************************)
\* Sync runs started in one behaviour of Spec.
MaxRuns == 2
\* Longest description drawn by SynthSpec.
MaxStrLen == 3

(***************************************************************************)
(* Characters and strings                                                  *)
(***************************************************************************)
SQ == "'"
DQ == "\""
BS == "\\"
NL == "\n"

\* A JavaScript value that is undefined (a field the JSON body lacks).
Undefined == <<"<undefined>">>

\* `${x}` in a template literal: undefined is rendered as the word undefined.
Interp(x) == IF x = Undefined THEN <<"u", "n", "d", "e", "f", "i", "n", "e", "d">> ELSE x

\* x || fallback on strings: undefined and '' are falsy.
OrElse(x, fallback) == IF x = Undefined \/ x = <<>> THEN fallback ELSE x

Truthy(x) == x # Undefined /\ x # <<>>

\* entry.f of an entry object that may lack the field.
Get(entry, f) == IF f \in DOMAIN entry THEN entry[f] ELSE Undefined

RECURSIVE Join(_, _)
\* Array.prototype.join
Join(strs, sep) ==
  IF strs = <<>> THEN <<>>
  ELSE IF Len(strs) = 1 THEN Interp(strs[1])
  ELSE Interp(strs[1]) \o sep \o Join(Tail(strs), sep)

CommaSpace == <<",", " ">>

RECURSIVE ReplaceQuotes(_)
\* description.replace(/'/g, "\\'"): every ' becomes \'
ReplaceQuotes(s) ==
  IF s = <<>> THEN <<>>
  ELSE (IF Head(s) = SQ THEN <<BS, SQ>> ELSE <<Head(s)>>) \o ReplaceQuotes(Tail(s))

\* '${x}': the text placed between single quotes, as it stands.
Quoted(x) == <<SQ>> \o Interp(x) \o <<SQ>>

\* '${entry.description.replace(/'/g, "\\'")}'
QuotedDescription(entry) == <<SQ>> \o ReplaceQuotes(entry.description) \o <<SQ>>

\* The tags written as null when there is none.
TagsLiteralOrNull(entry) ==
  LET lits == IF "tags" \in DOMAIN entry
                THEN [i \in 1..Len(entry.tags) |-> Quoted(entry.tags[i])]
                ELSE <<>>
  IN IF lits = <<>> THEN <<"n", "u", "l", "l">>
     ELSE <<"[">> \o Join(lits, CommaSpace) \o <<"]">>

\* [${entry.tags?.map(tag => `'${tag}'`).join(', ') || ''}]
TagsLiteral(entry) ==
  LET lits == IF "tags" \in DOMAIN entry
                THEN [i \in 1..Len(entry.tags) |-> Quoted(entry.tags[i])]
                ELSE <<>>
  IN <<"[">> \o Join(lits, CommaSpace) \o <<"]">>

\* ${entry.tags?.join(', ') || 'none'}
TagsComment(entry) ==
  OrElse(IF "tags" \in DOMAIN entry THEN Join(entry.tags, CommaSpace) ELSE Undefined,
         <<"n", "o", "n", "e">>)

(***************************************************************************)
(* Registries: ordered maps, as Object.entries iterates them               *)
(***************************************************************************)
Keys(map) == [i \in 1..Len(map) |-> map[i].key]

KeySet(map) == {map[i].key : i \in 1..Len(map)}

\* entry.description.replace and entry.description.substring throw a TypeError
\* when the description is undefined.
DescriptionThrows(components) ==
  \E i \in 1..Len(components) : Get(components[i].entry, "description") = Undefined

(***************************************************************************)
(* Export synthesiser: generateNamedExports, lines 136-195                 *)
(***************************************************************************)
\* `// ${entry.title}${entry.author ? ` (by ${entry.author})` : ''}`
GlobalTitleComment(entry) ==
  Interp(Get(entry, "title")) \o
    (IF Truthy(Get(entry, "author"))
       THEN <<" ", "(", "b", "y", " ">> \o entry.author \o <<")">>
       ELSE <<>>)

\* The binding calling the factory with the author of the entry as well.
GlobalBindingByAuthor(componentName, entry) ==
  [ titleComment |-> GlobalTitleComment(entry),
    blockIdComment |-> Interp(Get(entry, "blockId")),
    descriptionComment |-> Interp(Get(entry, "description")),
    tagsComment |-> TagsComment(entry),
    name |-> componentName,
    factory |-> "createNamedBlock",
    args |-> <<Quoted(OrElse(Get(entry, "author"), <<>>)), Quoted(componentName)>> ]

\* One exported binding of the global module, with its comment lines.
GlobalBinding(componentName, entry) ==
  [ titleComment |-> GlobalTitleComment(entry),
    blockIdComment |-> Interp(Get(entry, "blockId")),
    descriptionComment |-> Interp(Get(entry, "description")),
    tagsComment |-> TagsComment(entry),
    name |-> componentName,
    factory |-> "createNamedBlock",
    args |-> <<Quoted(componentName)>> ]

\* One entry of registryMetadata.components.
GlobalMetaEntry(componentName, entry) ==
  [ key |-> componentName,
    blockId |-> Quoted(Get(entry, "blockId")),
    title |-> Quoted(Get(entry, "title")),
    description |-> QuotedDescription(entry),
    author |-> Quoted(OrElse(Get(entry, "author"), <<>>)),
    tags |-> TagsLiteral(entry),
    lastUpdated |-> Quoted(Get(entry, "lastUpdated")) ]

\* The entry of an author's metadata repeating the author of the component.
AuthorMetaEntryWithAuthor(componentName, entry) ==
  [ key |-> componentName,
    blockId |-> Quoted(Get(entry, "blockId")),
    title |-> Quoted(Get(entry, "title")),
    description |-> QuotedDescription(entry),
    author |-> Quoted(OrElse(Get(entry, "author"), <<>>)),
    tags |-> TagsLiteral(entry),
    lastUpdated |-> Quoted(Get(entry, "lastUpdated")) ]

\* One entry of registryMetadata.authors.<author> and of authorMetadata.components.
AuthorMetaEntry(componentName, entry) ==
  [ key |-> componentName,
    blockId |-> Quoted(Get(entry, "blockId")),
    title |-> Quoted(Get(entry, "title")),
    description |-> QuotedDescription(entry),
    tags |-> TagsLiteral(entry),
    lastUpdated |-> Quoted(Get(entry, "lastUpdated")) ]

AuthorsMetaSection(authorRegistry) ==
  [a \in 1..Len(authorRegistry) |->
     [ key |-> authorRegistry[a].key,
       components |->
         [i \in 1..Len(authorRegistry[a].components) |->
            AuthorMetaEntry(authorRegistry[a].components[i].key,
                            authorRegistry[a].components[i].entry)] ]]

\* Building the content of namedExports.ts throws (before anything is written).
NamedExportsThrows(registry, authorRegistry) ==
  \/ DescriptionThrows(registry)
  \/ \E a \in 1..Len(authorRegistry) : DescriptionThrows(authorRegistry[a].components)

\* registryMetadata with the generation time written into every entry's lastUpdated.
RegistryMetadataRestamped(registry, authorRegistry, t2) ==
  [ totalComponents |-> Len(registry),
    totalAuthors |-> Len(authorRegistry),
    lastGenerated |-> t2,
    components |-> [i \in 1..Len(registry) |->
                      [GlobalMetaEntry(registry[i].key, registry[i].entry)
                         EXCEPT !.lastUpdated = Quoted([k \in 1..t2 |-> "0"])]],
    authors |-> AuthorsMetaSection(authorRegistry) ]

\* The registryMetadata object of lines 163-194.
RegistryMetadata(registry, authorRegistry, t2) ==
  [ totalComponents |-> Len(registry),
    totalAuthors |-> Len(authorRegistry),
    lastGenerated |-> t2,
    components |-> [i \in 1..Len(registry) |->
                      GlobalMetaEntry(registry[i].key, registry[i].entry)],
    authors |-> AuthorsMetaSection(authorRegistry) ]

\* The content of namedExports.ts; t1 and t2 are the two readings of the clock.
NamedExportsContent(registry, authorRegistry, t1, t2) ==
  [ kind |-> "global",
    generatedOn |-> t1,
    totalComponentsComment |-> Len(registry),
    totalAuthorsComment |-> Len(authorRegistry),
    bindings |-> [i \in 1..Len(registry) |-> GlobalBinding(registry[i].key, registry[i].entry)],
    aggregateName |-> "NamedComponents",
    aggregate |-> Keys(registry),
    availableAuthors |-> Join(Keys(authorRegistry), CommaSpace),
    metadata |-> RegistryMetadata(registry, authorRegistry, t2) ]

(***************************************************************************)
(* Export synthesiser: generateAuthorEntryFiles, lines 241-277             *)
(***************************************************************************)
AuthorBinding(author, componentName, entry) ==
  [ titleComment |-> Interp(Get(entry, "title")),
    blockIdComment |-> Interp(Get(entry, "blockId")),
    descriptionComment |-> Interp(Get(entry, "description")),
    tagsComment |-> TagsComment(entry),
    name |-> componentName,
    factory |-> "createAuthorBlock",
    args |-> <<Quoted(author), Quoted(componentName)>> ]

AuthorEntryThrows(components) == DescriptionThrows(components)

\* The content of authors/<author>/index.ts.
AuthorEntryContent(author, components, t1, t2) ==
  [ kind |-> "author",
    authorComment |-> author,
    generatedOn |-> t1,
    totalComponentsComment |-> Len(components),
    bindings |-> [i \in 1..Len(components) |->
                    AuthorBinding(author, components[i].key, components[i].entry)],
    aggregateName |-> "default",
    aggregate |-> Keys(components),
    metadata |->
      [ author |-> Quoted(author),
        totalComponents |-> Len(components),
        lastGenerated |-> t2,
        components |-> [i \in 1..Len(components) |->
                          AuthorMetaEntry(components[i].key, components[i].entry)] ] ]

(***************************************************************************)
(* Names and texts used as inputs                                          *)
(***************************************************************************)
Widget ==
  <<"W", "i", "d", "g", "e", "t">>
Chart ==
  <<"C", "h", "a", "r", "t">>
BadName ==
  <<"1", "2", "3", "B", "a", "d", "-", "N", "a", "m", "e">>
Alice ==
  <<"a", "l", "i", "c", "e">>
Bob ==
  <<"b", "o", "b">>
Carol ==
  <<"c", "a", "r", "o", "l">>
ItsATest ==
  <<"I", "t", "'", "s", " ", "a", " ", "\"", "t", "e", "s", "t", "\"", " ", "b", "l", "o",
      "c", "k">>
PlainText ==
  <<"A", " ", "c", "h", "a", "r", "t">>
BlockIdA == <<"6", "5", "a", "1">>
BlockIdB == <<"6", "5", "b", "2">>
Stamp == <<"2", "0", "2", "5">>
UiTag == <<"u", "i">>

WidgetEntry ==
  [ blockId |-> BlockIdA, componentName |-> Widget, author |-> Alice, title |-> Widget,
    description |-> ItsATest, tags |-> <<UiTag>>, lastUpdated |-> Stamp ]
WidgetOfBob ==
  [ blockId |-> BlockIdB, componentName |-> Widget, author |-> Bob, title |-> Widget,
    description |-> PlainText, tags |-> <<>>, lastUpdated |-> Stamp ]
ChartEntry ==
  [ blockId |-> BlockIdB, componentName |-> Chart, title |-> Chart,
    description |-> PlainText, lastUpdated |-> Stamp ]
BadEntry ==
  [ blockId |-> BlockIdB, componentName |-> BadName, title |-> Chart,
    description |-> PlainText, tags |-> <<>>, lastUpdated |-> Stamp ]
NoDescriptionEntry ==
  [ blockId |-> BlockIdB, componentName |-> Chart, title |-> Chart,
    tags |-> <<>>, lastUpdated |-> Stamp ]
NoTitleEntry ==
  [ blockId |-> BlockIdB, componentName |-> Chart, description |-> PlainText,
    tags |-> <<>>, lastUpdated |-> Stamp ]

Item(k, e) == [key |-> k, entry |-> e]
AuthorItem(a, comps) == [key |-> a, components |-> comps]

\* The bodies the registry endpoint may answer with: { registry, authorRegistry }.
Snapshots ==
  { [registry |-> <<>>, authorRegistry |-> <<>>],
    [registry |-> <<Item(Widget, WidgetEntry)>>,
     authorRegistry |-> <<AuthorItem(Alice, <<Item(Widget, WidgetEntry)>>),
                          AuthorItem(Bob, <<Item(Widget, WidgetOfBob)>>)>>],
    [registry |-> <<Item(Widget, WidgetEntry)>>,
     authorRegistry |-> <<AuthorItem(Alice, <<Item(Widget, WidgetEntry)>>)>>],
    [registry |-> <<Item(Chart, ChartEntry), Item(Widget, WidgetEntry)>>,
     authorRegistry |-> <<>>],
    [registry |-> <<Item(BadName, BadEntry)>>, authorRegistry |-> <<>>],
    [registry |-> <<Item(Widget, WidgetEntry)>>,
     authorRegistry |-> <<AuthorItem(Bob, <<Item(BadName, BadEntry)>>)>>],
    [registry |-> <<Item(Chart, NoDescriptionEntry)>>, authorRegistry |-> <<>>],
    [registry |-> <<Item(Widget, WidgetEntry)>>,
     authorRegistry |-> <<AuthorItem(Alice, <<Item(Chart, NoDescriptionEntry)>>)>>],
    [registry |-> <<Item(Chart, NoTitleEntry)>>,
     authorRegistry |-> <<AuthorItem(Alice, <<Item(Chart, NoTitleEntry)>>)>>] }

\* How the fetch of lines 33-42 can fail: fetch() rejects, response.ok is false,
\* response.json() rejects, or the body lacks registry, authorRegistry or meta.
FetchFailures == {"network", "http", "json", "shape"}

(***************************************************************************)
(* The file system                                                         *)
(***************************************************************************)
None == <<>>
Some(x) == <<x>>

EntryFile == "index.ts"

Needle ==
  <<"e", "x", "p", "o", "r", "t", " ", "*", " ", "f", "r", "o", "m", " ", "'", ".", "/", "n",
      "a", "m", "e", "d", "E", "x", "p", "o", "r", "t", "s", "'">>
AppendedText ==
  <<"\n", "/", "/", " ", "A", "u", "t", "o", "-", "g", "e", "n", "e", "r", "a", "t", "e",
      "d", " ", "n", "a", "m", "e", "d", " ", "e", "x", "p", "o", "r", "t", "s", "\n", "e",
      "x", "p", "o", "r", "t", " ", "*", " ", "f", "r", "o", "m", " ", "'", ".", "/", "n",
      "a", "m", "e", "d", "E", "x", "p", "o", "r", "t", "s", "'", ";", "\n">>
HandWritten ==
  <<"e", "x", "p", "o", "r", "t", " ", "{", " ", "B", "l", "o", "c", "k", " ", "}", " ", "f",
      "r", "o", "m", " ", "'", ".", "/", "B", "l", "o", "c", "k", "'", ";", "\n">>
DoubleQuotedReexport ==
  <<"e", "x", "p", "o", "r", "t", " ", "*", " ", "f", "r", "o", "m", " ", "\"", ".", "/",
      "n", "a", "m", "e", "d", "E", "x", "p", "o", "r", "t", "s", "\"", ";", "\n">>
CommentedReexport ==
  <<"/", "/", " ", "e", "x", "p", "o", "r", "t", " ", "*", " ", "f", "r", "o", "m", " ", "'",
      ".", "/", "n", "a", "m", "e", "d", "E", "x", "p", "o", "r", "t", "s", "'", "\n">>

\* String.prototype.includes
Includes(text, needle) ==
  \E i \in 1..(Len(text) - Len(needle) + 1) : SubSeq(text, i, i + Len(needle) - 1) = needle

\* The patch without the test of line 212.
PatchedIndexUnchecked(indexContent) == indexContent \o AppendedText

\* The entry point regenerated like the other generated files.
PatchedIndexRegenerated(indexContent) == AppendedText

\* Lines 209-215 on the content read from src/index.ts: the new content.
PatchedIndex(indexContent) ==
  IF ~Includes(indexContent, Needle) THEN indexContent \o AppendedText ELSE indexContent

\* The three candidate directories of findMextBlockPath, in the order of possiblePaths.
Candidates == <<"../mext-block", "./mext-block", "../../mext-block">>

\* What a candidate's package.json is: absent, not JSON, of another package, of @mexty/block.
DescriptorStates == {"absent", "unparseable", "other", "target"}

RECURSIVE FirstMatch(_, _)
FirstMatch(pkg, i) ==
  IF i > Len(Candidates) THEN 0
  ELSE IF pkg[i] = "absent" THEN FirstMatch(pkg, i + 1)
  ELSE IF pkg[i] = "unparseable" THEN FirstMatch(pkg, i + 1)
  ELSE IF pkg[i] = "target" THEN i
  ELSE FirstMatch(pkg, i + 1)

\* The first candidate, whatever its package.json.
findFirstCandidate(pkg) == 1

\* The last candidate that declares the package, 0 for none.
findLastMatch(pkg) ==
  IF \E i \in 1..Len(Candidates) : pkg[i] = "target"
    THEN CHOOSE i \in 1..Len(Candidates) :
           pkg[i] = "target" /\ \A j \in (i + 1)..Len(Candidates) : pkg[j] # "target"
    ELSE 0

\* findMextBlockPath: the index of the returned candidate, 0 for null.
findMextBlockPath(pkg) == FirstMatch(pkg, 1)

\* The package layouts Spec starts from.
PackageLayouts ==
  { <<"absent", "absent", "absent">>,
    <<"target", "absent", "absent">>,
    <<"unparseable", "target", "target">>,
    <<"other", "unparseable", "absent">> }

\* What a run that ended before this behaviour began left in the package.
EarlierNamedExports ==
  NamedExportsContent(<<Item(Widget, WidgetEntry)>>,
                      <<AuthorItem(Bob, <<Item(Widget, WidgetOfBob)>>)>>, 0, 0)
EarlierEntryOfBob == AuthorEntryContent(Bob, <<Item(Widget, WidgetOfBob)>>, 0, 0)
EarlierEntryOfCarol == AuthorEntryContent(Carol, <<Item(Chart, ChartEntry)>>, 0, 0)

\* A file somebody put beside a generated entry file.
NotesFile == [kind |-> "notes"]

\* The package trees Spec starts from: a fresh package, hand-written entry points,
\* and packages an earlier run has generated into.
InitialTrees ==
  { [src |-> FALSE, namedExports |-> None, index |-> None, authors |-> None],
    [src |-> TRUE, namedExports |-> None, index |-> None, authors |-> None],
    [src |-> TRUE, namedExports |-> None, index |-> Some(HandWritten), authors |-> None],
    [src |-> TRUE, namedExports |-> None,
     index |-> Some(HandWritten \o DoubleQuotedReexport), authors |-> Some(<<>>)],
    [src |-> TRUE, namedExports |-> Some(EarlierNamedExports),
     index |-> Some(CommentedReexport \o HandWritten),
     authors |-> Some(Carol :> (EntryFile :> EarlierEntryOfCarol @@ "notes.md" :> NotesFile))],
    [src |-> TRUE, namedExports |-> Some(EarlierNamedExports),
     index |-> Some(HandWritten \o AppendedText),
     authors |-> Some(Bob :> (EntryFile :> EarlierEntryOfBob))] }

(***************************************************************************)
(* State                                                                   *)
(***************************************************************************)
VARIABLES
  procs,           \* the invocations of `mexty sync` that exist
  pc,              \* where each invocation is in syncCommand
  registry,        \* data.registry of each invocation
  authorRegistry,  \* data.authorRegistry of each invocation
  mextBlockPath,   \* the result of findMextBlockPath (0: null)
  content,         \* the content built by the invocation and not yet written
  authorIdx,       \* position of the loop of line 234
  exitCode,        \* 1 once process.exit(1) was called
  report,          \* what the invocation printed, as message tags
  errorMessage,    \* error.message of the exception caught at line 96
  ops,             \* the mutating file system calls the invocation made
  pkgJson,         \* the package.json of each candidate directory
  tree,            \* the target package: src/, namedExports.ts, index.ts, authors/
  treeAtStart,     \* the package as each invocation found it
  clock,           \* the time new Date() reads
  runs,            \* invocations started so far
  appends,         \* how often the re-export text was appended to src/index.ts
  syn,             \* the synthesiser applied to a drawn input (SynthSpec)
  synthesized,     \* the modules whose content the invocation has built so far
  command,         \* the command each invocation runs
  at,              \* where the invocation is in a command other than sync
  authFile,        \* ~/.mext/auth.json, which holds the token
  requests,        \* the API requests the invocation sent
  localOps,        \* what the invocation changed locally (git, clone, chdir, auth file)
  printed,         \* what the command printed, as message tags
  answered,        \* the answers the user typed at the prompts of the command
  attempts,        \* the counter of the polling loop of github-login and of create
  connected,       \* the flag of the polling loop of github-login
  cloning          \* the gitUrl of the created block and the locals of cloneRepository

vars ==
  << procs, pc, registry, authorRegistry, mextBlockPath, content, authorIdx, exitCode,
     report, errorMessage, ops, pkgJson, tree, treeAtStart, clock, runs, appends, syn,
     synthesized, command, at, authFile, requests, localOps, printed, answered, attempts,
     connected, cloning >>

runVars ==
  << registry, authorRegistry, mextBlockPath, content, authorIdx, treeAtStart, synthesized >>

\* The state of the commands other than sync.
cliVars ==
  << command, at, authFile, requests, localOps, printed, answered, attempts, connected,
     cloning >>

\* getGitHubToken has not been called.
NoTokenData == [thrown |-> "not-requested", success |-> FALSE, token |-> Undefined]

\* No block was created and cloneRepository was not entered.
NotCloning == [gitUrl |-> Undefined, tokenData |-> NoTokenData, authenticatedUrl |-> Undefined]

\* No command other than sync runs.
CliIdle ==
  /\ command = [p \in procs |-> "sync"]
  /\ at = [p \in procs |-> "sync"]
  /\ authFile = "absent"
  /\ requests = [p \in procs |-> <<>>]
  /\ localOps = [p \in procs |-> <<>>]
  /\ printed = [p \in procs |-> <<>>]
  /\ answered = [p \in procs |-> <<>>]
  /\ attempts = [p \in procs |-> 0]
  /\ connected = [p \in procs |-> FALSE]
  /\ cloning = [p \in procs |-> NotCloning]

Init ==
  /\ procs = {1}
  /\ pc = [p \in procs |-> "idle"]
  /\ registry = [p \in procs |-> <<>>]
  /\ authorRegistry = [p \in procs |-> <<>>]
  /\ mextBlockPath = [p \in procs |-> 0]
  /\ content = [p \in procs |-> None]
  /\ authorIdx = [p \in procs |-> 1]
  /\ exitCode = [p \in procs |-> 0]
  /\ report = [p \in procs |-> <<>>]
  /\ errorMessage = [p \in procs |-> ""]
  /\ ops = [p \in procs |-> <<>>]
  /\ pkgJson \in PackageLayouts
  /\ tree \in InitialTrees
  /\ treeAtStart = [p \in procs |-> tree]
  /\ clock = 0
  /\ runs = 0
  /\ appends = 0
  /\ syn = None
  /\ synthesized = [p \in procs |-> {}]
  /\ CliIdle

(***************************************************************************)
(* syncCommand, lines 27-100                                               *)
(***************************************************************************)
Say(p, msgs) == report' = [report EXCEPT ![p] = @ \o msgs]

Did(p, op) == ops' = [ops EXCEPT ![p] = Append(@, op)]

\* The statements of the try block print said, then one throws: the catch of
\* lines 96-99 prints the message and calls process.exit(1).
FailAfter(p, said, message) ==
  /\ pc' = [pc EXCEPT ![p] = "failed"]
  /\ exitCode' = [exitCode EXCEPT ![p] = 1]
  /\ errorMessage' = [errorMessage EXCEPT ![p] = message]
  /\ Say(p, said \o <<"failed-to-sync">>)

\* The catch of lines 96-99: the message, then process.exit(1).
Fail(p, message) == FailAfter(p, <<>>, message)

\* The two generators called in the other order.
AfterAuthorsFirst(step) ==
  CASE step = "locate" -> "authors_purge"
    [] step = "authors_purge" -> "authors_mkdir"
    [] step = "authors_mkdir" -> "author_mkdir"
    [] step = "author_mkdir" -> "author_synth"
    [] step = "author_synth" -> "author_write"
    [] step = "author_write" -> "author_mkdir"
    [] step = "authors_done" -> "named_synth"
    [] step = "named_synth" -> "named_mkdir"
    [] step = "named_mkdir" -> "named_write"
    [] step = "named_write" -> "index_patch"
    [] OTHER -> "finish"

\* The global module written without its content being built first.
AfterWithoutSynthesis(step) ==
  CASE step = "locate" -> "named_mkdir"
    [] step = "named_synth" -> "named_mkdir"
    [] step = "named_mkdir" -> "named_write"
    [] step = "named_write" -> "index_patch"
    [] step = "index_patch" -> "authors_purge"
    [] step = "authors_purge" -> "authors_mkdir"
    [] step = "authors_mkdir" -> "author_mkdir"
    [] step = "author_mkdir" -> "author_synth"
    [] step = "author_synth" -> "author_write"
    [] step = "author_write" -> "author_mkdir"
    [] OTHER -> "finish"

\* The statement that follows step: lines 85-87 call generateNamedExports, then
\* generateAuthorEntryFiles, each of which runs its statements top to bottom;
\* "author_write" is followed by the next turn of the loop of line 234 and
\* "authors_done" is the end of that loop.
After(step) ==
  CASE step = "locate" -> "named_synth"
    [] step = "named_synth" -> "named_mkdir"
    [] step = "named_mkdir" -> "named_write"
    [] step = "named_write" -> "index_patch"
    [] step = "index_patch" -> "authors_purge"
    [] step = "authors_purge" -> "authors_mkdir"
    [] step = "authors_mkdir" -> "author_mkdir"
    [] step = "author_mkdir" -> "author_synth"
    [] step = "author_synth" -> "author_write"
    [] step = "author_write" -> "author_mkdir"
    [] OTHER -> "finish"

\* Lines 27-32: syncCommand is entered.
BeginRun(p) ==
  /\ runs' = runs + 1
  /\ clock' = clock + 1
  /\ pc' = [pc EXCEPT ![p] = "fetch"]
  /\ registry' = [registry EXCEPT ![p] = <<>>]
  /\ authorRegistry' = [authorRegistry EXCEPT ![p] = <<>>]
  /\ mextBlockPath' = [mextBlockPath EXCEPT ![p] = 0]
  /\ content' = [content EXCEPT ![p] = None]
  /\ authorIdx' = [authorIdx EXCEPT ![p] = 1]
  /\ exitCode' = [exitCode EXCEPT ![p] = 0]
  /\ report' = [report EXCEPT ![p] = <<"syncing">>]
  /\ errorMessage' = [errorMessage EXCEPT ![p] = ""]
  /\ ops' = [ops EXCEPT ![p] = <<>>]
  /\ treeAtStart' = [treeAtStart EXCEPT ![p] = tree]
  /\ synthesized' = [synthesized EXCEPT ![p] = {}]
  /\ UNCHANGED << procs, pkgJson, tree, appends, syn >>

\* A new invocation of the command.
StartRun(p) ==
  /\ pc[p] \in {"idle", "done", "failed"}
  /\ runs < MaxRuns
  /\ BeginRun(p)
  /\ UNCHANGED cliVars

\* The failure of the fetch swallowed: the run goes on with the registry it has.
FetchFailsSwallowed(p) ==
  /\ pc[p] = "fetch"
  /\ pc' = [pc EXCEPT ![p] = "locate"]
  /\ Say(p, <<"fetch-warning">>)
  /\ UNCHANGED << procs, runVars, exitCode, errorMessage, ops, pkgJson, tree, clock, runs,
                  appends, syn, cliVars >>

\* Lines 33-50 when the fetch, the status test or the deserialisation throws, or
\* the body lacks a part: meta.totalBlocks (line 45) and Object.keys(registry)
\* (line 50) throw after line 44 has printed that the registry was fetched.
FetchFails(p) ==
  /\ pc[p] = "fetch"
  /\ \E why \in FetchFailures :
       FailAfter(p, IF why = "shape" THEN <<"fetched">> ELSE <<>>, why)
  /\ UNCHANGED << procs, runVars, ops, pkgJson, tree, clock, runs, appends, syn, cliVars >>

\* Lines 33-48: the body, one of bodies, is read.
FetchFrom(p, bodies) ==
  /\ pc[p] = "fetch"
  /\ \E data \in bodies :
       /\ registry' = [registry EXCEPT ![p] = data.registry]
       /\ authorRegistry' = [authorRegistry EXCEPT ![p] = data.authorRegistry]
  /\ pc' = [pc EXCEPT ![p] = "display"]
  /\ Say(p, <<"fetched">>)
  /\ UNCHANGED << procs, mextBlockPath, content, authorIdx, exitCode, errorMessage, ops,
                  pkgJson, tree, treeAtStart, clock, runs, appends, syn, synthesized,
                  cliVars >>

FetchOk(p) == FetchFrom(p, Snapshots)

\* No early return.
RegistryNeverEmpty(reg) == FALSE

\* Line 50: Object.keys(registry).length === 0
RegistryIsEmpty(reg) == Len(reg) = 0

\* Lines 50-79: the early return on an empty registry, then the listing, whose
\* entry.description.substring throws on an entry without description.
Display(p) ==
  /\ pc[p] = "display"
  /\ IF RegistryIsEmpty(registry[p])
       THEN /\ pc' = [pc EXCEPT ![p] = "done"]
            /\ Say(p, <<"no-components">>)
            /\ UNCHANGED << exitCode, errorMessage >>
       ELSE IF DescriptionThrows(registry[p])
         THEN Fail(p, "TypeError")
         ELSE /\ pc' = [pc EXCEPT ![p] = "locate"]
              /\ Say(p, <<"listed">>)
              /\ UNCHANGED << exitCode, errorMessage >>
  /\ UNCHANGED << procs, runVars, ops, pkgJson, tree, clock, runs, appends, syn, cliVars >>

\* Lines 82-94: the package is looked for; without it the run completes.
Locate(p) ==
  /\ pc[p] = "locate"
  /\ LET found == findMextBlockPath(pkgJson)
     IN /\ mextBlockPath' = [mextBlockPath EXCEPT ![p] = found]
        /\ IF found # 0
             THEN /\ pc' = [pc EXCEPT ![p] = After("locate")]
                  /\ Say(p, <<"updating">>)
             ELSE /\ pc' = [pc EXCEPT ![p] = "done"]
                  /\ Say(p, <<"package-not-found", "completed">>)
  /\ UNCHANGED << procs, registry, authorRegistry, content, authorIdx, exitCode,
                  errorMessage, ops, pkgJson, tree, treeAtStart, clock, runs, appends, syn,
                  synthesized, cliVars >>

(***************************************************************************)
(* generateNamedExports, lines 132-217                                     *)
(***************************************************************************)
\* The name the global module goes by among the modules built.
GlobalModule == <<"n", "a", "m", "e", "d", "E", "x", "p", "o", "r", "t", "s">>

\* Lines 136-195: the content is built, which throws on a missing description.
NamedSynth(p) ==
  /\ pc[p] = "named_synth"
  /\ IF NamedExportsThrows(registry[p], authorRegistry[p])
       THEN /\ Fail(p, "TypeError")
            /\ UNCHANGED << content, synthesized >>
       ELSE /\ content' = [content EXCEPT ![p] =
                 Some(NamedExportsContent(registry[p], authorRegistry[p], clock, clock))]
            /\ synthesized' = [synthesized EXCEPT ![p] = @ \cup {GlobalModule}]
            /\ pc' = [pc EXCEPT ![p] = After("named_synth")]
            /\ UNCHANGED << exitCode, report, errorMessage >>
  /\ UNCHANGED << procs, registry, authorRegistry, mextBlockPath, authorIdx, ops, pkgJson,
                  tree, treeAtStart, clock, runs, appends, syn, cliVars >>

\* Lines 198-201: src/ is created when it is missing.
NamedMkdir(p) ==
  /\ pc[p] = "named_mkdir"
  /\ IF ~tree.src
       THEN /\ tree' = [tree EXCEPT !.src = TRUE]
            /\ Did(p, "mkdir src")
       ELSE UNCHANGED << tree, ops >>
  /\ pc' = [pc EXCEPT ![p] = After("named_mkdir")]
  /\ UNCHANGED << procs, runVars, exitCode, report, errorMessage, pkgJson, clock, runs,
                  appends, syn, cliVars >>

\* Line 204: namedExports.ts is overwritten.
NamedWrite(p) ==
  /\ pc[p] = "named_write"
  /\ tree.src
  /\ tree' = [tree EXCEPT !.namedExports = content[p]]
  /\ Did(p, "write namedExports.ts")
  /\ pc' = [pc EXCEPT ![p] = After("named_write")]
  /\ UNCHANGED << procs, runVars, exitCode, report, errorMessage, pkgJson, clock, runs,
                  appends, syn, cliVars >>

\* Lines 207-216: the re-export is appended to src/index.ts unless it is there.
IndexPatch(p) ==
  /\ pc[p] = "index_patch"
  /\ IF tree.index # None /\ PatchedIndex(tree.index[1]) # tree.index[1]
       THEN /\ tree' = [tree EXCEPT !.index = Some(PatchedIndex(tree.index[1]))]
            /\ Did(p, "write index.ts")
            /\ appends' = appends + 1
       ELSE UNCHANGED << tree, ops, appends >>
  /\ pc' = [pc EXCEPT ![p] = After("index_patch")]
  /\ UNCHANGED << procs, runVars, exitCode, report, errorMessage, pkgJson, clock, runs,
                  syn, cliVars >>

(***************************************************************************)
(* generateAuthorEntryFiles, lines 222-284                                 *)
(***************************************************************************)
EmptyDir == <<>>

\* One directory shared by all authors.
AuthorDirShared(author) == <<"a", "l", "l">>

\* path.join(authorsDir, author): the subdirectory of an author.
AuthorDirName(author) == author

\* The authors directory left in place.
AuthorsKept(authors) == authors

\* fs.rmSync(authorsDir, { recursive: true, force: true })
AuthorsRemoved(authors) == None

\* The purge waits until no other invocation is between its own purge and its
\* last write.
AuthorsPurgeLocked(p) ==
  /\ pc[p] = "authors_purge"
  /\ \A q \in procs \ {p} :
       pc[q] \notin {"authors_mkdir", "author_mkdir", "author_synth", "author_write"}
  /\ IF tree.authors # None
       THEN /\ tree' = [tree EXCEPT !.authors = AuthorsRemoved(@)]
            /\ Did(p, "rm authors")
       ELSE UNCHANGED << tree, ops >>
  /\ pc' = [pc EXCEPT ![p] = After("authors_purge")]
  /\ UNCHANGED << procs, runVars, exitCode, report, errorMessage, pkgJson, clock, runs,
                  appends, syn, cliVars >>

\* Lines 226-228: the authors directory is removed with all it holds.
AuthorsPurge(p) ==
  /\ pc[p] = "authors_purge"
  /\ IF tree.authors # None
       THEN /\ tree' = [tree EXCEPT !.authors = AuthorsRemoved(@)]
            /\ Did(p, "rm authors")
       ELSE UNCHANGED << tree, ops >>
  /\ pc' = [pc EXCEPT ![p] = After("authors_purge")]
  /\ UNCHANGED << procs, runVars, exitCode, report, errorMessage, pkgJson, clock, runs,
                  appends, syn, cliVars >>

\* Line 231: mkdirSync(authorsDir, { recursive: true }), then the loop test of line 234.
AuthorsMkdir(p) ==
  /\ pc[p] = "authors_mkdir"
  /\ tree' = [tree EXCEPT !.src = TRUE,
                          !.authors = IF @ = None THEN Some(EmptyDir) ELSE @]
  /\ Did(p, "mkdir authors")
  /\ authorIdx' = [authorIdx EXCEPT ![p] = 1]
  /\ pc' = [pc EXCEPT ![p] = IF Len(authorRegistry[p]) = 0
                                THEN After("authors_done")
                                ELSE After("authors_mkdir")]
  /\ UNCHANGED << procs, registry, authorRegistry, mextBlockPath, content, exitCode, report,
                  errorMessage, pkgJson, treeAtStart, clock, runs, appends, syn, synthesized,
                  cliVars >>

\* Lines 235-236: mkdirSync(authorDir, { recursive: true }).
AuthorMkdir(p) ==
  /\ pc[p] = "author_mkdir"
  /\ LET name == AuthorDirName(authorRegistry[p][authorIdx[p]].key)
         dir == IF tree.authors = None THEN EmptyDir ELSE tree.authors[1]
     IN tree' = [tree EXCEPT !.src = TRUE,
                             !.authors = IF name \in DOMAIN dir
                                           THEN Some(dir)
                                           ELSE Some(dir @@ (name :> EmptyDir))]
  /\ Did(p, "mkdir author")
  /\ pc' = [pc EXCEPT ![p] = After("author_mkdir")]
  /\ UNCHANGED << procs, runVars, exitCode, report, errorMessage, pkgJson, clock, runs,
                  appends, syn, cliVars >>

\* Lines 241-277: the content of the author's entry file is built.
AuthorSynth(p) ==
  /\ pc[p] = "author_synth"
  /\ LET item == authorRegistry[p][authorIdx[p]]
     IN IF AuthorEntryThrows(item.components)
          THEN /\ Fail(p, "TypeError")
               /\ UNCHANGED << content, synthesized >>
          ELSE /\ content' = [content EXCEPT ![p] =
                    Some(AuthorEntryContent(item.key, item.components, clock, clock))]
               /\ synthesized' = [synthesized EXCEPT ![p] = @ \cup {item.key}]
               /\ pc' = [pc EXCEPT ![p] = After("author_synth")]
               /\ UNCHANGED << exitCode, report, errorMessage >>
  /\ UNCHANGED << procs, registry, authorRegistry, mextBlockPath, authorIdx, ops, pkgJson,
                  tree, treeAtStart, clock, runs, appends, syn, cliVars >>

\* The author's subdirectory is there to write into.
AuthorDirExists(p) ==
  /\ tree.authors # None
  /\ AuthorDirName(authorRegistry[p][authorIdx[p]].key) \in DOMAIN tree.authors[1]

\* Line 280, then the loop test of line 234.
AuthorWrite(p) ==
  /\ pc[p] = "author_write"
  /\ AuthorDirExists(p)
  /\ LET name == AuthorDirName(authorRegistry[p][authorIdx[p]].key)
         dir == tree.authors[1]
         files == dir[name]
         written == [f \in DOMAIN files \cup {EntryFile} |->
                       IF f = EntryFile THEN content[p][1] ELSE files[f]]
     IN tree' = [tree EXCEPT !.authors =
                   Some([d \in DOMAIN dir |-> IF d = name THEN written ELSE dir[d]])]
  /\ Did(p, "write author entry")
  /\ Say(p, <<"created-entry-file">>)
  /\ authorIdx' = [authorIdx EXCEPT ![p] = @ + 1]
  /\ pc' = [pc EXCEPT ![p] = IF authorIdx[p] + 1 > Len(authorRegistry[p])
                                THEN After("authors_done")
                                ELSE After("author_write")]
  /\ UNCHANGED << procs, registry, authorRegistry, mextBlockPath, content, exitCode,
                  errorMessage, pkgJson, treeAtStart, clock, runs, appends, syn, synthesized,
                  cliVars >>

\* Lines 87-94: the closing messages.
Finish(p) ==
  /\ pc[p] = "finish"
  /\ pc' = [pc EXCEPT ![p] = "done"]
  /\ Say(p, <<"exports-updated", "completed">>)
  /\ UNCHANGED << procs, runVars, exitCode, errorMessage, ops, pkgJson, tree, clock, runs,
                  appends, syn, cliVars >>

\* The step the invocation is at makes a file system call that can throw.
CallsFileSystem(p) ==
  \/ pc[p] = "named_mkdir" /\ ~tree.src
  \/ pc[p] = "named_write"
  \/ pc[p] = "index_patch" /\ tree.index # None
  \/ pc[p] = "authors_purge" /\ tree.authors # None
  \/ pc[p] \in {"authors_mkdir", "author_mkdir", "author_write"}

\* The package restored to what the invocation found.
TreeRolledBack(p) == treeAtStart[p]

\* What an exception thrown by a file system call leaves of the package tree.
TreeAfterError(p) == tree

\* A file system call throws (EACCES, ENOSPC, ENOENT): the catch of line 96.
FsError(p) ==
  /\ CallsFileSystem(p)
  /\ Fail(p, "fs")
  /\ tree' = TreeAfterError(p)
  /\ UNCHANGED << procs, runVars, ops, pkgJson, clock, runs, appends, syn, cliVars >>

Next ==
  \/ \E p \in procs : StartRun(p)
  \/ \E p \in procs : FetchFails(p)
  \/ \E p \in procs : FetchOk(p)
  \/ \E p \in procs : Display(p)
  \/ \E p \in procs : Locate(p)
  \/ \E p \in procs : NamedSynth(p)
  \/ \E p \in procs : NamedMkdir(p)
  \/ \E p \in procs : NamedWrite(p)
  \/ \E p \in procs : IndexPatch(p)
  \/ \E p \in procs : AuthorsPurge(p)
  \/ \E p \in procs : AuthorsMkdir(p)
  \/ \E p \in procs : AuthorMkdir(p)
  \/ \E p \in procs : AuthorSynth(p)
  \/ \E p \in procs : AuthorWrite(p)
  \/ \E p \in procs : Finish(p)
  \/ \E p \in procs : FsError(p)

Spec == Init /\ [][Next]_vars

(***************************************************************************)
(* The synthesiser on drawn inputs                                         *)
(***************************************************************************)
\* The characters descriptions are drawn from: a letter, both quotes, the
\* backslash and the line feed.
DescriptionChars == {"a", SQ, DQ, BS, NL}

RECURSIVE StringsUpTo(_)
StringsUpTo(n) ==
  IF n = 0 THEN {<<>>}
  ELSE LET shorter == StringsUpTo(n - 1)
       IN shorter \cup {Append(s, c) : s \in {t \in shorter : Len(t) = n - 1},
                                        c \in DescriptionChars}

Descriptions == StringsUpTo(MaxStrLen)

\* The tags an entry is drawn with: the field absent, empty, or one tag.
TagChoices == {"absent", "empty", "one"}

DrawnEntry(name, author, description, tagChoice) ==
  LET base == [ blockId |-> BlockIdA, componentName |-> name, author |-> author,
                title |-> Widget, description |-> description, lastUpdated |-> Stamp ]
  IN CASE tagChoice = "absent" -> base
       [] tagChoice = "empty" -> base @@ [tags |-> <<>>]
       [] OTHER -> base @@ [tags |-> <<UiTag>>]

\* The fields of an entry the drawn text is placed in.
Fields == {"description", "title", "tags", "blockId"}

\* An entry with the drawn text as its description, its title, its one tag or
\* its block id.
DrawnWith(field, text, name, author, tagChoice) ==
  CASE field = "description" -> DrawnEntry(name, author, text, tagChoice)
    [] field = "title" ->
         [DrawnEntry(name, author, PlainText, tagChoice) EXCEPT !.title = text]
    [] field = "blockId" ->
         [DrawnEntry(name, author, PlainText, tagChoice) EXCEPT !.blockId = text]
    [] field = "tags" ->
         DrawnEntry(name, author, PlainText, "absent") @@ [tags |-> <<text>>]

\* The times new Date() may read while one module is built.
Times == {1, 2}

Reversed(seq) == [i \in 1..Len(seq) |-> seq[Len(seq) + 1 - i]]

\* The entries of every map taken from the last to the first.
SynthesizeReordered(reg, authors, t1, t2) ==
  [ global |-> NamedExportsContent(Reversed(reg), Reversed(authors), t1, t2),
    authors |-> [a \in 1..Len(authors) |->
                   AuthorEntryContent(authors[a].key, Reversed(authors[a].components),
                                      t1, t2)] ]

\* The global module and the author modules, as one run of the two generators
\* builds them from a snapshot.
Synthesize(reg, authors, t1, t2) ==
  [ global |-> NamedExportsContent(reg, authors, t1, t2),
    authors |-> [a \in 1..Len(authors) |->
                   AuthorEntryContent(authors[a].key, authors[a].components, t1, t2)] ]

SynthInit ==
  /\ procs = {1}
  /\ pc = [p \in procs |-> "idle"]
  /\ registry = [p \in procs |-> <<>>]
  /\ authorRegistry = [p \in procs |-> <<>>]
  /\ mextBlockPath = [p \in procs |-> 0]
  /\ content = [p \in procs |-> None]
  /\ authorIdx = [p \in procs |-> 1]
  /\ exitCode = [p \in procs |-> 0]
  /\ report = [p \in procs |-> <<>>]
  /\ errorMessage = [p \in procs |-> ""]
  /\ ops = [p \in procs |-> <<>>]
  /\ pkgJson = <<"absent", "absent", "absent">>
  /\ tree = [src |-> FALSE, namedExports |-> None, index |-> None, authors |-> None]
  /\ treeAtStart = [p \in procs |-> tree]
  /\ clock = 0
  /\ runs = 0
  /\ appends = 0
  /\ synthesized = [p \in procs |-> {}]
  /\ CliIdle
  /\ \E name \in {Widget, BadName}, text \in Descriptions, tagChoice \in TagChoices,
          field \in Fields :
       /\ field # "description" => name = Widget /\ tagChoice = "one"
       /\ syn = [ phase |-> "drawn",
                  registry |-> << Item(name, DrawnWith(field, text, name, Alice, tagChoice)),
                                  Item(Chart, ChartEntry) >>,
                  authorRegistry |->
                    << AuthorItem(Bob,
                         <<Item(name, DrawnWith(field, text, name, Bob, "empty"))>>),
                       AuthorItem(Alice,
                         << Item(name, DrawnWith(field, text, name, Alice, tagChoice)),
                            Item(Chart, ChartEntry) >>) >>,
                  first |-> None,
                  second |-> None ]

SynthUnchanged ==
  UNCHANGED << procs, pc, registry, authorRegistry, mextBlockPath, content, authorIdx,
               exitCode, report, errorMessage, ops, pkgJson, tree, treeAtStart, clock, runs,
               appends, synthesized, cliVars >>

\* The modules are synthesised from the drawn snapshot.
SynthFirst ==
  /\ syn.phase = "drawn"
  /\ \E t1 \in Times, t2 \in Times :
       /\ t1 <= t2
       /\ syn' = [syn EXCEPT !.phase = "once",
                             !.first = Some(Synthesize(syn.registry, syn.authorRegistry, t1, t2))]
  /\ SynthUnchanged

\* They are synthesised again from the same snapshot, at other times.
SynthSecond ==
  /\ syn.phase = "once"
  /\ \E t1 \in Times, t2 \in Times :
       /\ t1 <= t2
       /\ syn' = [syn EXCEPT !.phase = "twice",
                             !.second = Some(Synthesize(syn.registry, syn.authorRegistry, t1, t2))]
  /\ SynthUnchanged

SynthNext == SynthFirst \/ SynthSecond

SynthSpec == SynthInit /\ [][SynthNext]_vars

(***************************************************************************)
(* The commands guarded by requireAuthentication                           *)
(***************************************************************************)
\* Everything of the state that belongs to the sync run but the exit code.
syncVars ==
  << procs, pc, runVars, report, errorMessage, ops, pkgJson, tree, clock, runs, appends,
     syn >>

\* The commands of index.ts that call requireAuthentication.
GuardedCommands ==
  { "create", "delete", "publish", "save", "update-git-url", "github-login",
    "github-disconnect" }

\* ~/.mext/auth.json: missing, not JSON, JSON without a token, JSON with a token.
AuthFiles == {"absent", "unparseable", "no-token", "token"}

\* getStoredToken, api.ts 143-153: null unless the file parses and holds a token.
getStoredToken == IF authFile = "token" THEN Some("token") ELSE None

\* The token is not looked at: every caller passes for authenticated.
isAuthenticatedAlways == TRUE

\* ApiClient.isAuthenticated, api.ts 186-188.
isAuthenticated == getStoredToken # None

\* What the server, or the network, answers to a request.
Responses == {"ok", "error", "unauthorized"}

\* A request is sent. The response interceptor of api.ts 110-140 removes the
\* auth file on a 401 (clearStoredToken, 176-184) and rethrows every error.
Request(p, call, response) ==
  /\ requests' = [requests EXCEPT ![p] = Append(@, call)]
  /\ IF response = "unauthorized" /\ authFile # "absent"
       THEN /\ authFile' = "absent"
            /\ localOps' = [localOps EXCEPT ![p] = Append(@, "clear token")]
       ELSE UNCHANGED << authFile, localOps >>

\* A git or file system operation of the command.
Local(p, op) ==
  /\ localOps' = [localOps EXCEPT ![p] = Append(@, op)]
  /\ UNCHANGED << requests, authFile >>

\* A step that sends nothing and changes nothing locally.
Quiet == UNCHANGED << requests, localOps, authFile >>

\* The command goes on at next after printing msgs; "exited" is process.exit(1),
\* "returned" the normal end of the command.
Move(p, next, msgs) ==
  /\ at' = [at EXCEPT ![p] = next]
  /\ printed' = [printed EXCEPT ![p] = @ \o msgs]
  /\ exitCode' = [exitCode EXCEPT ![p] = IF next = "exited" THEN 1 ELSE @]

\* What no step of these commands changes, the polling loop apart.
CliFrame == UNCHANGED << syncVars, command, attempts, connected, cloning >>

NoAnswer == UNCHANGED answered

\* The first statement of each command after requireAuthentication.
FirstStep(cmd) ==
  CASE cmd = "delete" -> "delete_get"
    [] cmd = "save" -> "save_repo"
    [] cmd = "publish" -> "publish_repo"
    [] cmd = "create" -> "create_name"
    [] cmd = "update-git-url" -> "giturl_block"
    [] cmd = "github-login" -> "login_status"
    [] cmd = "github-disconnect" -> "disconnect_status"

\* requireAuthentication, auth.ts 4-21: without a token the message and
\* process.exit(1).
RequireAuthentication(p) ==
  /\ at[p] = "start"
  /\ IF isAuthenticated
       THEN Move(p, FirstStep(command[p]), <<>>)
       ELSE Move(p, "exited", <<"authentication-required">>)
  /\ Quiet /\ NoAnswer /\ CliFrame

\* The lower-case form of the letters an answer is typed with.
ToLowerCase(c) ==
  CASE c = "Y" -> "y"
    [] c = "E" -> "e"
    [] c = "S" -> "s"
    [] c = "N" -> "n"
    [] c = "O" -> "o"
    [] OTHER -> c

toLowerCase(s) == [i \in 1..Len(s) |-> ToLowerCase(s[i])]

WhiteSpace == {" ", NL}

\* String.prototype.trim: the white space at both ends removed.
RECURSIVE trim(_)
trim(s) ==
  IF s = <<>> THEN s
  ELSE IF Head(s) \in WhiteSpace THEN trim(Tail(s))
  ELSE IF s[Len(s)] \in WhiteSpace THEN trim(SubSeq(s, 1, Len(s) - 1))
  ELSE s

\* What the user types at a prompt.
Answers ==
  { <<>>, <<"y">>, <<"n">>, <<" ", "Y", "E", "S", NL>>, <<"y", "e", "p">>,
    <<"y", " ", "e", "s">> }

\* Every answer taken for a yes.
confirmAlways(answer) == TRUE

\* confirm, part_001 362-374: the answer in lower case and trimmed is y or yes.
confirm(answer) ==
  \/ trim(toLowerCase(answer)) = <<"y">>
  \/ trim(toLowerCase(answer)) = <<"y", "e", "s">>

Answer(p, answer) == answered' = [answered EXCEPT ![p] = Append(@, answer)]

(***************************************************************************)
(* deleteCommand, part_001 376-418                                         *)
(***************************************************************************)
\* Lines 381-393: the block is fetched; an exception goes to the catch of 414.
DeleteGetBlock(p) ==
  /\ command[p] = "delete" /\ at[p] = "delete_get"
  /\ \E response \in Responses :
       /\ Request(p, "getBlock", response)
       /\ IF response = "ok"
            THEN Move(p, "delete_confirm", <<"block-info">>)
            ELSE Move(p, "exited", <<"failed-to-delete">>)
  /\ NoAnswer /\ CliFrame

\* Lines 396-401: the confirmation.
DeleteConfirm(p) ==
  /\ command[p] = "delete" /\ at[p] = "delete_confirm"
  /\ \E answer \in Answers :
       /\ Answer(p, answer)
       /\ IF confirm(answer)
            THEN Move(p, "delete_send", <<>>)
            ELSE Move(p, "returned", <<"deletion-cancelled">>)
  /\ Quiet /\ CliFrame

\* Lines 404-417: the delete request.
DeleteBlock(p) ==
  /\ command[p] = "delete" /\ at[p] = "delete_send"
  /\ \E response \in Responses :
       /\ Request(p, "deleteBlock", response)
       /\ IF response = "ok"
            THEN Move(p, "returned", <<"block-deleted">>)
            ELSE Move(p, "exited", <<"failed-to-delete">>)
  /\ NoAnswer /\ CliFrame

(***************************************************************************)
(* saveCommand, README.md 751-888                                          *)
(***************************************************************************)
\* Lines 756-773: isGitRepository (git.ts 82-90) answers false outside a
\* repository.
SaveRepository(p) ==
  /\ command[p] = "save" /\ at[p] = "save_repo"
  /\ \E isGitRepo \in BOOLEAN :
       IF isGitRepo THEN Move(p, "save_info", <<>>)
       ELSE Move(p, "exited", <<"not-a-git-repository">>)
  /\ Quiet /\ NoAnswer /\ CliFrame

\* Lines 776-811: getRepositoryInfo (git.ts 149-164) throws to the catch of
\* line 884; findBlockId finds no block id; the repository has changes, and the
\* prompt returns the typed message or its default, never the empty string.
SaveInfo(p) ==
  /\ command[p] = "save" /\ at[p] = "save_info"
  /\ \E outcome \in {"throws", "no-block-id", "changes", "clean"} :
       CASE outcome = "throws" ->
              Move(p, "exited", <<"failed-to-save">>) /\ NoAnswer
         [] outcome = "no-block-id" ->
              Move(p, "exited", <<"no-block-id">>) /\ NoAnswer
         [] outcome = "changes" ->
              /\ Move(p, "save_stage", <<"found-changes">>)
              /\ \E message \in {<<>>, <<"f", "i", "x">>} : Answer(p, message)
         [] outcome = "clean" ->
              Move(p, "save_push", <<"no-changes">>) /\ NoAnswer
  /\ Quiet /\ CliFrame

\* A git call of the command: it is made, and it succeeds or throws.
GitCall(p, op, next, done, failed) ==
  /\ Local(p, op)
  /\ \E succeeds \in BOOLEAN :
       IF succeeds THEN Move(p, next, <<done>>) ELSE Move(p, "exited", <<failed>>)
  /\ NoAnswer /\ CliFrame

\* Lines 814-823: git add .
SaveStage(p) ==
  /\ command[p] = "save" /\ at[p] = "save_stage"
  /\ GitCall(p, "git add", "save_commit", "staged", "failed-to-stage")

\* Lines 826-835: git commit.
SaveCommit(p) ==
  /\ command[p] = "save" /\ at[p] = "save_commit"
  /\ GitCall(p, "git commit", "save_push", "committed", "failed-to-commit")

\* The build triggered whether or not the push went through.
SavePushUnchecked(p) ==
  /\ command[p] = "save" /\ at[p] = "save_push"
  /\ Local(p, "git push")
  /\ \E succeeds \in BOOLEAN :
       Move(p, "save_build", <<IF succeeds THEN "pushed" ELSE "failed-to-push">>)
  /\ NoAnswer /\ CliFrame

\* Lines 841-857: pushToRemote (git.ts 122-144).
SavePush(p) ==
  /\ command[p] = "save" /\ at[p] = "save_push"
  /\ GitCall(p, "git push", "save_build", "pushed", "failed-to-push")

\* Lines 860-883: the save-and-bundle request.
SaveBuild(p) ==
  /\ command[p] = "save" /\ at[p] = "save_build"
  /\ \E response \in Responses :
       /\ Request(p, "saveAndBundle", response)
       /\ IF response = "ok"
            THEN Move(p, "returned", <<"saved">>)
            ELSE Move(p, "exited", <<"build-failed">>)
  /\ NoAnswer /\ CliFrame

(***************************************************************************)
(* publishCommand, part_000 68-159                                         *)
(***************************************************************************)
\* Lines 73-84: isGitRepository.
PublishRepository(p) ==
  /\ command[p] = "publish" /\ at[p] = "publish_repo"
  /\ \E isGitRepo \in BOOLEAN :
       IF isGitRepo THEN Move(p, "publish_info", <<>>)
       ELSE Move(p, "exited", <<"not-a-git-repository">>)
  /\ Quiet /\ NoAnswer /\ CliFrame

\* Lines 87-112: getRepositoryInfo throws to the catch of line 155; findBlockId
\* finds no block id; with uncommitted changes the user is asked to go on.
PublishInfo(p) ==
  /\ command[p] = "publish" /\ at[p] = "publish_info"
  /\ \E outcome \in {"throws", "no-block-id", "changes", "clean"} :
       CASE outcome = "throws" ->
              Move(p, "exited", <<"failed-to-publish">>) /\ NoAnswer
         [] outcome = "no-block-id" ->
              Move(p, "exited", <<"no-block-id">>) /\ NoAnswer
         [] outcome = "changes" ->
              \E answer \in Answers :
                /\ Answer(p, answer)
                /\ IF confirm(answer)
                     THEN Move(p, "publish_pushed", <<"uncommitted-changes">>)
                     ELSE Move(p, "returned",
                               <<"uncommitted-changes", "publishing-cancelled">>)
         [] outcome = "clean" ->
              Move(p, "publish_pushed", <<>>) /\ NoAnswer
  /\ Quiet /\ CliFrame

\* Lines 115-122: the user says whether the changes were pushed.
PublishPushed(p) ==
  /\ command[p] = "publish" /\ at[p] = "publish_pushed"
  /\ \E answer \in Answers :
       /\ Answer(p, answer)
       /\ IF confirm(answer)
            THEN Move(p, "publish_build", <<>>)
            ELSE Move(p, "returned", <<"push-first">>)
  /\ Quiet /\ CliFrame

\* Lines 125-139 and 149-153: the save-and-bundle request.
PublishBuild(p) ==
  /\ command[p] = "publish" /\ at[p] = "publish_build"
  /\ \E response \in Responses :
       /\ Request(p, "saveAndBundle", response)
       /\ IF response = "ok"
            THEN Move(p, "publish_sync", <<"published", "auto-syncing">>)
            ELSE Move(p, "exited", <<"build-failed">>)
  /\ NoAnswer /\ CliFrame

\* Line 141: syncCommand is called; its steps are the actions of the sync run.
PublishAutoSync(p) ==
  /\ command[p] = "publish" /\ at[p] = "publish_sync"
  /\ at' = [at EXCEPT ![p] = "in_sync"]
  /\ BeginRun(p)
  /\ UNCHANGED << command, authFile, requests, localOps, printed, answered, attempts,
                  connected, cloning >>

\* Lines 142-147: syncCommand returned, and the registry is reported as synced;
\* or its promise was rejected, and the catch of line 143 prints the warning. A
\* run that failed ended the process in its own catch (sync.ts 96-99).
PublishAfterSync(p) ==
  /\ command[p] = "publish" /\ at[p] = "in_sync"
  /\ pc[p] \in {"done", "failed"}
  /\ IF pc[p] = "done" THEN Move(p, "returned", <<"registry-synced">>)
     ELSE IF exitCode[p] = 1 THEN Move(p, "exited", <<>>)
     ELSE Move(p, "returned", <<"registry-sync-failed">>)
  /\ Quiet /\ NoAnswer /\ CliFrame

(***************************************************************************)
(* GitManager.cloneRepository, github-login.ts 176-245                     *)
(***************************************************************************)
HttpsScheme ==
  <<"h", "t", "t", "p", "s", ":", "/", "/">>
GitHubCom ==
  <<"g", "i", "t", "h", "u", "b", ".", "c", "o", "m">>
HttpsGitHub == HttpsScheme \o GitHubCom \o <<"/">>
SshGitHub == <<"g", "i", "t", "@">> \o GitHubCom \o <<":">>
AtGitHubCom == <<"@">> \o GitHubCom \o <<"/">>

\* The gitUrl of a created block: the HTTPS and the SSH form of a GitHub
\* repository, a GitHub URL of neither form, and a repository elsewhere.
RepoPath ==
  <<"o", "/", "r">>
HttpsUrl == HttpsGitHub \o RepoPath
SshUrl == SshGitHub \o RepoPath
PlainHttpUrl == <<"h", "t", "t", "p", ":", "/", "/">> \o GitHubCom \o <<"/">> \o RepoPath
GitLabUrl ==
  HttpsScheme \o <<"g", "i", "t", "l", "a", "b", ".", "c", "o", "m", "/">> \o RepoPath
GitUrls == {HttpsUrl, SshUrl, PlainHttpUrl, GitLabUrl}

\* The access token the server holds for the user.
Token ==
  <<"t", "o", "k">>

\* String.prototype.startsWith
startsWith(s, prefix) == Len(prefix) <= Len(s) /\ SubSeq(s, 1, Len(prefix)) = prefix

\* String.prototype.replace with a string pattern: the first occurrence.
replace(s, pattern, replacement) ==
  IF ~Includes(s, pattern) THEN s
  ELSE LET found == {k \in 1..(Len(s) - Len(pattern) + 1) :
                       SubSeq(s, k, k + Len(pattern) - 1) = pattern}
           k == CHOOSE m \in found : \A n \in found : m <= n
       IN SubSeq(s, 1, k - 1) \o replacement \o SubSeq(s, k + Len(pattern), Len(s))

\* Lines 231-245.
injectTokenIntoUrl(repoUrl, token) ==
  IF startsWith(repoUrl, HttpsGitHub)
    THEN replace(repoUrl, HttpsGitHub, HttpsScheme \o Interp(token) \o AtGitHubCom)
  ELSE IF startsWith(repoUrl, SshGitHub)
    THEN HttpsScheme \o Interp(token) \o AtGitHubCom \o replace(repoUrl, SshGitHub, <<>>)
  ELSE repoUrl

\* Line 188.
isGitHub(repoUrl) == Includes(repoUrl, GitHubCom)

\* What getGitHubToken (api.ts 326-329) gives: a body with or without success
\* and token, or an exception (404, another failure, 401).
TokenAnswers ==
  {[thrown |-> "", success |-> ok, token |-> token] :
     ok \in BOOLEAN, token \in {Undefined, <<>>, Token}}
    \cup {[thrown |-> e, success |-> FALSE, token |-> Undefined] :
            e \in {"not-found", "error", "unauthorized"}}

\* Line 195: the answer came and has success and a token.
HasToken(tokenData) ==
  tokenData.thrown = "" /\ tokenData.success /\ Truthy(tokenData.token)

\* The token put into the URL whatever the answer was.
authenticatedUrlUnchecked(repoUrl, tokenData) == injectTokenIntoUrl(repoUrl, tokenData.token)

\* Lines 189-206: the URL handed to git clone after the token request.
authenticatedUrlFor(repoUrl, tokenData) ==
  IF HasToken(tokenData) THEN injectTokenIntoUrl(repoUrl, tokenData.token) ELSE repoUrl

(***************************************************************************)
(* createCommand, part_002 37-251                                          *)
(***************************************************************************)
\* Line 158.
invitationMaxAttempts == 120

\* Lines 45-87: the name of the block is required in both syntaxes.
CreateName(p) ==
  /\ command[p] = "create" /\ at[p] = "create_name"
  /\ \E named \in BOOLEAN :
       IF named THEN Move(p, "create_block", <<>>)
       ELSE Move(p, "exited", <<"name-required">>)
  /\ Quiet /\ NoAnswer /\ CliFrame

\* Lines 96-114: the block is created; an exception goes to the catch of 247.
CreateBlock(p) ==
  /\ command[p] = "create" /\ at[p] = "create_block"
  /\ \E response \in Responses :
       /\ Request(p, "createBlock", response)
       /\ IF response = "ok"
            THEN Move(p, "create_structure", <<"block-created">>)
            ELSE Move(p, "exited", <<"failed-to-create">>)
  /\ NoAnswer /\ CliFrame

\* Lines 117-136 and 240-246: the block is added to the library, a failure
\* being a warning; without a git URL the command ends.
CreateStructure(p) ==
  /\ command[p] = "create" /\ at[p] = "create_structure"
  /\ \E response \in Responses, gitUrl \in GitUrls \cup {Undefined} :
       /\ Request(p, "addBlockToStructure", response)
       /\ cloning' = [cloning EXCEPT ![p].gitUrl = gitUrl]
       /\ Move(p, IF Truthy(gitUrl) THEN "create_github" ELSE "returned",
               <<IF response = "ok" THEN "added-to-library" ELSE "library-warning">>
                 \o IF Truthy(gitUrl) THEN <<"github-url">> ELSE <<"no-repository">>)
  /\ NoAnswer /\ UNCHANGED << syncVars, command, attempts, connected >>

\* What getGitHubStatus gives.
StatusResponses == {"connected", "not-connected", "error", "unauthorized"}

\* Lines 138-141 and 197-199: the GitHub status is read; without a connection,
\* and when the request throws, the command goes on to the clone.
CreateGitHubStatus(p) ==
  /\ command[p] = "create" /\ at[p] = "create_github"
  /\ \E response \in StatusResponses :
       /\ Request(p, "getGitHubStatus", response)
       /\ IF response = "connected" THEN Move(p, "create_invitation", <<>>)
          ELSE Move(p, "create_clone", <<>>)
  /\ NoAnswer /\ CliFrame

\* What checkGitHubInvitationStatus gives.
InvitationResponses == {"accepted", "pending", "error", "unauthorized"}

\* Lines 143-161 and 193-199: the invitation is looked up; when it is pending
\* the URL is printed and the counter of the loop starts at 0; an exception
\* goes to the catch of line 197 and on to the clone.
CreateInvitation(p) ==
  /\ command[p] = "create" /\ at[p] = "create_invitation"
  /\ \E response \in InvitationResponses :
       /\ Request(p, "checkGitHubInvitationStatus", response)
       /\ CASE response = "accepted" ->
                 Move(p, "create_clone", <<"github-access-confirmed">>)
            [] response = "pending" ->
                 Move(p, "create_poll", <<"access-required", "waiting-for-invitation">>)
            [] OTHER -> Move(p, "create_clone", <<>>)
  /\ attempts' = [attempts EXCEPT ![p] = 0]
  /\ NoAnswer /\ UNCHANGED << syncVars, command, connected, cloning >>

\* The loop goes round once more than invitationMaxAttempts times.
InvitationPollContinuesOneMore(p) == attempts[p] <= invitationMaxAttempts

\* Line 163: the condition of the loop; accepted is false as long as the loop
\* was not left by the break of line 172.
InvitationPollContinues(p) == attempts[p] < invitationMaxAttempts

\* Lines 164-183: one round of the loop: the wait, the counter, the check,
\* whose exception is swallowed, the progress line (recorded the first time
\* it is printed); on acceptance the loop is left and line 186 lets the
\* command go on to the clone.
CreatePoll(p) ==
  /\ command[p] = "create" /\ at[p] = "create_poll"
  /\ InvitationPollContinues(p)
  /\ attempts' = [attempts EXCEPT ![p] = @ + 1]
  /\ \E response \in InvitationResponses :
       /\ Request(p, "checkGitHubInvitationStatus", response)
       /\ CASE response = "accepted" -> Move(p, "create_clone", <<"invitation-accepted">>)
            [] response = "pending" ->
                 Move(p, "create_poll",
                      IF attempts'[p] % 6 = 0
                           /\ \A k \in DOMAIN printed[p] : printed[p][k] # "still-waiting"
                        THEN <<"still-waiting">>
                        ELSE <<>>)
            [] OTHER -> Move(p, "create_poll", <<>>)
  /\ NoAnswer /\ UNCHANGED << syncVars, command, connected, cloning >>

\* Lines 186-192: the loop ended without acceptance, the command returns.
CreatePollEnd(p) ==
  /\ command[p] = "create" /\ at[p] = "create_poll"
  /\ ~InvitationPollContinues(p)
  /\ Move(p, "returned", <<"invitation-timeout">>)
  /\ Quiet /\ NoAnswer /\ CliFrame

\* Lines 202-209 and 231-239, cloneRepository 177-189: an existing target
\* directory is an error thrown to the caller; the URL to clone from starts
\* as the given one.
CreateClone(p) ==
  /\ command[p] = "create" /\ at[p] = "create_clone"
  /\ \E exists \in BOOLEAN :
       IF exists
         THEN /\ Move(p, "returned", <<"cloning", "directory-exists", "failed-to-clone">>)
              /\ UNCHANGED cloning
         ELSE /\ Move(p, IF isGitHub(cloning[p].gitUrl) THEN "clone_token" ELSE "clone_git",
                      <<"cloning">>)
              /\ cloning' = [cloning EXCEPT ![p].authenticatedUrl = cloning[p].gitUrl]
  /\ Quiet /\ NoAnswer /\ UNCHANGED << syncVars, command, attempts, connected >>

\* cloneRepository 191-206: the token is requested for a GitHub URL; whatever
\* comes back, the clone follows.
CloneToken(p) ==
  /\ command[p] = "create" /\ at[p] = "clone_token"
  /\ \E tokenData \in TokenAnswers :
       /\ Request(p, "getGitHubToken", tokenData.thrown)
       /\ cloning' = [cloning EXCEPT
                        ![p].tokenData = tokenData,
                        ![p].authenticatedUrl =
                           authenticatedUrlFor(cloning[p].gitUrl, tokenData)]
       /\ Move(p, "clone_git",
               IF HasToken(tokenData) THEN <<"cloning-authenticated">>
               ELSE IF tokenData.thrown = "not-found" THEN <<"cloning-public">>
               ELSE <<>>)
  /\ NoAnswer /\ UNCHANGED << syncVars, command, attempts, connected >>

\* cloneRepository 208-226 and part_002 211-239: git clone; a failure is
\* reported by cloneRepository and by the command, which ends.
CloneGit(p) ==
  /\ command[p] = "create" /\ at[p] = "clone_git"
  /\ Local(p, "git clone")
  /\ \E outcome \in {"cloned", "authentication-required", "clone-error"} :
       IF outcome = "cloned" THEN Move(p, "create_chdir", <<"cloned">>)
       ELSE Move(p, "returned", <<outcome, "failed-to-clone">>)
  /\ NoAnswer /\ CliFrame

\* Lines 220-230: process.chdir; a failure is a warning.
CreateChdir(p) ==
  /\ command[p] = "create" /\ at[p] = "create_chdir"
  /\ \E succeeds \in BOOLEAN :
       IF succeeds
         THEN Local(p, "chdir") /\ Move(p, "returned", <<"changed-directory">>)
         ELSE Quiet /\ Move(p, "returned", <<"chdir-warning">>)
  /\ NoAnswer /\ CliFrame

(***************************************************************************)
(* updateGitUrlCommand, update-git-url.ts 43-170                           *)
(***************************************************************************)
\* promptYesNo, lines 29-41: the answer in lower case starts with y.
promptYesNo(answer) == answer # <<>> /\ ToLowerCase(answer[1]) = "y"

\* Lines 47-67: the block id is given or asked for, and has 24 hex digits.
GitUrlBlockId(p) ==
  /\ command[p] = "update-git-url" /\ at[p] = "giturl_block"
  /\ \E blockId \in {"missing", "malformed", "valid"} :
       CASE blockId = "missing" -> Move(p, "exited", <<"block-id-required">>)
         [] blockId = "malformed" -> Move(p, "exited", <<"invalid-block-id">>)
         [] blockId = "valid" -> Move(p, "giturl_get", <<>>)
  /\ Quiet /\ NoAnswer /\ CliFrame

\* Lines 70-83: the block is fetched.
GitUrlGetBlock(p) ==
  /\ command[p] = "update-git-url" /\ at[p] = "giturl_get"
  /\ \E response \in Responses :
       /\ Request(p, "getBlock", response)
       /\ IF response = "ok"
            THEN Move(p, "giturl_mode", <<"found-block">>)
            ELSE Move(p, "exited", <<"failed-to-fetch-block">>)
  /\ NoAnswer /\ CliFrame

\* Lines 85-102: --reset, a URL on the command line, or the interactive mode.
GitUrlMode(p) ==
  /\ command[p] = "update-git-url" /\ at[p] = "giturl_mode"
  /\ \E mode \in {"reset", "url", "bad-url", "interactive"} :
       CASE mode = "reset" -> Move(p, "giturl_confirm", <<"resetting">>)
         [] mode = "url" -> Move(p, "giturl_confirm", <<"new-git-url">>)
         [] mode = "bad-url" -> Move(p, "exited", <<"invalid-git-url">>)
         [] mode = "interactive" -> Move(p, "giturl_interactive", <<>>)
  /\ Quiet /\ NoAnswer /\ CliFrame

\* Lines 104-130: the block is fetched again (an exception goes to the catch of
\* line 166), the URL is asked for and tested, and for a URL that is not the
\* default one the user is asked whether to reset.
GitUrlInteractive(p) ==
  /\ command[p] = "update-git-url" /\ at[p] = "giturl_interactive"
  /\ \E response \in Responses, entered \in {"empty", "malformed", "default", "other"} :
       /\ Request(p, "getBlock", response)
       /\ IF response # "ok" THEN Move(p, "exited", <<"error">>) /\ NoAnswer
          ELSE CASE entered = "empty" ->
                      Move(p, "exited", <<"git-url-required">>) /\ NoAnswer
                 [] entered = "malformed" ->
                      Move(p, "exited", <<"invalid-git-url">>) /\ NoAnswer
                 [] entered = "default" ->
                      Move(p, "giturl_confirm", <<>>) /\ NoAnswer
                 [] entered = "other" ->
                      \E answer \in Answers :
                        /\ Answer(p, answer)
                        /\ Move(p, "giturl_confirm",
                                IF promptYesNo(answer) THEN <<"resetting">> ELSE <<>>)
  /\ CliFrame

\* Lines 134-140: the confirmation; a refusal ends the process with code 0.
GitUrlConfirm(p) ==
  /\ command[p] = "update-git-url" /\ at[p] = "giturl_confirm"
  /\ \E answer \in Answers :
       /\ Answer(p, answer)
       /\ IF promptYesNo(answer)
            THEN Move(p, "giturl_send", <<>>)
            ELSE Move(p, "returned", <<"update-cancelled">>)
  /\ Quiet /\ CliFrame

\* Lines 143-164: the update request.
GitUrlSend(p) ==
  /\ command[p] = "update-git-url" /\ at[p] = "giturl_send"
  /\ \E response \in Responses :
       /\ Request(p, "updateBlockGitUrl", response)
       /\ IF response = "ok"
            THEN Move(p, "returned", <<"git-url-updated">>)
            ELSE Move(p, "exited", <<"failed-to-update">>)
  /\ NoAnswer /\ CliFrame

(***************************************************************************)
(* githubDisconnectCommand, github-disconnect.ts 21-79                     *)
(***************************************************************************)
\* What the status request answers.

\* Lines 26-49 and 65-68: the status is read; the prompt of line 44 takes the
\* trimmed answer, compared in lower case with y and yes.
DisconnectStatus(p) ==
  /\ command[p] = "github-disconnect" /\ at[p] = "disconnect_status"
  /\ \E response \in StatusResponses :
       /\ Request(p, "getGitHubStatus", response)
       /\ CASE response = "not-connected" ->
                 Move(p, "returned", <<"github-not-connected">>) /\ NoAnswer
            [] response = "connected" ->
                 \E answer \in Answers :
                   /\ Answer(p, answer)
                   /\ IF toLowerCase(trim(answer)) \in {<<"y">>, <<"y", "e", "s">>}
                        THEN Move(p, "disconnect_send", <<"current-connection">>)
                        ELSE Move(p, "returned", <<"current-connection", "cancelled">>)
            [] OTHER ->
                 Move(p, "exited", <<"failed-to-disconnect">>) /\ NoAnswer
  /\ CliFrame

\* Lines 51-68: the disconnect request; an answer without success ends the
\* process in the same way as an exception.
DisconnectSend(p) ==
  /\ command[p] = "github-disconnect" /\ at[p] = "disconnect_send"
  /\ \E response \in Responses \cup {"refused"} :
       /\ Request(p, "disconnectGitHub", response)
       /\ IF response = "ok"
            THEN Move(p, "returned", <<"github-disconnected">>)
            ELSE Move(p, "exited", <<"failed-to-disconnect">>)
  /\ NoAnswer /\ CliFrame

(***************************************************************************)
(* githubLoginCommand, github-login.ts 10-106                              *)
(***************************************************************************)
\* Line 63.
maxAttempts == 60

\* Lines 15-32: the status is read first; a failure of this request is a
\* warning.
LoginStatus(p) ==
  /\ command[p] = "github-login" /\ at[p] = "login_status"
  /\ \E response \in StatusResponses :
       /\ Request(p, "getGitHubStatus", response)
       /\ CASE response = "connected" -> Move(p, "returned", <<"already-connected">>)
            [] response = "not-connected" -> Move(p, "login_url", <<>>)
            [] OTHER -> Move(p, "login_url", <<"status-warning">>)
  /\ NoAnswer /\ CliFrame

\* Lines 35-58: the OAuth URL is requested (an exception goes to the catch of
\* line 95, an answer without success or URL to process.exit(1)) and opened in
\* the browser, by open or by the user.
LoginUrl(p) ==
  /\ command[p] = "github-login" /\ at[p] = "login_url"
  /\ \E response \in Responses \cup {"refused"}, opened \in BOOLEAN :
       /\ Request(p, "getGitHubAuthUrl", response)
       /\ CASE response = "ok" ->
                 Move(p, "login_poll",
                      <<"oauth-url", IF opened THEN "authorize" ELSE "open-this-url",
                        "waiting">>)
            [] response = "refused" -> Move(p, "exited", <<"no-oauth-url">>)
            [] OTHER -> Move(p, "exited", <<"github-login-failed">>)
  /\ NoAnswer /\ UNCHANGED << syncVars, command, cloning >>
  /\ attempts' = [attempts EXCEPT ![p] = 0]
  /\ connected' = [connected EXCEPT ![p] = FALSE]

\* The loop goes round once more than maxAttempts times.
PollContinuesOneMore(p) == ~connected[p] /\ attempts[p] <= maxAttempts

\* Line 65: the condition of the loop.
PollContinues(p) == ~connected[p] /\ attempts[p] < maxAttempts

\* Lines 66-86: one round of the loop: the wait, the counter, the status
\* request, whose exception is swallowed, and the progress line.
LoginPoll(p) ==
  /\ command[p] = "github-login" /\ at[p] = "login_poll"
  /\ PollContinues(p)
  /\ attempts' = [attempts EXCEPT ![p] = @ + 1]
  /\ \E response \in StatusResponses :
       /\ Request(p, "getGitHubStatus", response)
       /\ IF response = "connected"
            THEN /\ connected' = [connected EXCEPT ![p] = TRUE]
                 /\ Move(p, "login_poll", <<"github-connected">>)
            ELSE /\ UNCHANGED connected
                 /\ Move(p, "login_poll",
                         IF attempts'[p] % 10 = 0 THEN <<"still-waiting">> ELSE <<>>)
  /\ NoAnswer /\ UNCHANGED << syncVars, command, cloning >>

\* Lines 87-93: the loop is left; without a connection the process exits.
LoginPollEnd(p) ==
  /\ command[p] = "github-login" /\ at[p] = "login_poll"
  /\ ~PollContinues(p)
  /\ IF connected[p] THEN Move(p, "returned", <<>>)
     ELSE Move(p, "exited", <<"authentication-timeout">>)
  /\ Quiet /\ NoAnswer /\ CliFrame

(***************************************************************************)
(* One invocation of a guarded command                                     *)
(***************************************************************************)
CliInit ==
  /\ procs = {1}
  /\ pc = [p \in procs |-> "idle"]
  /\ registry = [p \in procs |-> <<>>]
  /\ authorRegistry = [p \in procs |-> <<>>]
  /\ mextBlockPath = [p \in procs |-> 0]
  /\ content = [p \in procs |-> None]
  /\ authorIdx = [p \in procs |-> 1]
  /\ exitCode = [p \in procs |-> 0]
  /\ report = [p \in procs |-> <<>>]
  /\ errorMessage = [p \in procs |-> ""]
  /\ ops = [p \in procs |-> <<>>]
  /\ pkgJson \in PackageLayouts
  /\ tree \in InitialTrees
  /\ treeAtStart = [p \in procs |-> tree]
  /\ clock = 0
  /\ runs = 0
  /\ appends = 0
  /\ syn = None
  /\ synthesized = [p \in procs |-> {}]
  /\ command \in [procs -> GuardedCommands]
  /\ at = [p \in procs |-> "start"]
  /\ authFile \in AuthFiles
  /\ requests = [p \in procs |-> <<>>]
  /\ localOps = [p \in procs |-> <<>>]
  /\ printed = [p \in procs |-> <<>>]
  /\ answered = [p \in procs |-> <<>>]
  /\ attempts = [p \in procs |-> 0]
  /\ connected = [p \in procs |-> FALSE]
  /\ cloning = [p \in procs |-> NotCloning]
  \* The package is looked at by publish alone, whose last step is a sync run.
  /\ (\A p \in procs : command[p] # "publish") =>
       /\ pkgJson = <<"absent", "absent", "absent">>
       /\ tree = [src |-> FALSE, namedExports |-> None, index |-> None, authors |-> None]

\* The steps of the sync run that publish starts.
SyncStep(p) ==
  \/ FetchFails(p)
  \/ FetchOk(p)
  \/ Display(p)
  \/ Locate(p)
  \/ NamedSynth(p)
  \/ NamedMkdir(p)
  \/ NamedWrite(p)
  \/ IndexPatch(p)
  \/ AuthorsPurge(p)
  \/ AuthorsMkdir(p)
  \/ AuthorMkdir(p)
  \/ AuthorSynth(p)
  \/ AuthorWrite(p)
  \/ Finish(p)
  \/ FsError(p)

\* The rounds of the polling loop of github-login and its end.
LoginPolling == \E p \in procs : LoginPoll(p) \/ LoginPollEnd(p)

CliNext ==
  \/ \E p \in procs : RequireAuthentication(p)
  \/ \E p \in procs : DeleteGetBlock(p)
  \/ \E p \in procs : DeleteConfirm(p)
  \/ \E p \in procs : DeleteBlock(p)
  \/ \E p \in procs : SaveRepository(p)
  \/ \E p \in procs : SaveInfo(p)
  \/ \E p \in procs : SaveStage(p)
  \/ \E p \in procs : SaveCommit(p)
  \/ \E p \in procs : SavePush(p)
  \/ \E p \in procs : SaveBuild(p)
  \/ \E p \in procs : PublishRepository(p)
  \/ \E p \in procs : PublishInfo(p)
  \/ \E p \in procs : PublishPushed(p)
  \/ \E p \in procs : PublishBuild(p)
  \/ \E p \in procs : PublishAutoSync(p)
  \/ \E p \in procs : SyncStep(p)
  \/ \E p \in procs : PublishAfterSync(p)
  \/ \E p \in procs : CreateName(p)
  \/ \E p \in procs : CreateBlock(p)
  \/ \E p \in procs : CreateStructure(p)
  \/ \E p \in procs : CreateGitHubStatus(p)
  \/ \E p \in procs : CreateInvitation(p)
  \/ \E p \in procs : CreatePoll(p)
  \/ \E p \in procs : CreatePollEnd(p)
  \/ \E p \in procs : CreateClone(p)
  \/ \E p \in procs : CloneToken(p)
  \/ \E p \in procs : CloneGit(p)
  \/ \E p \in procs : CreateChdir(p)
  \/ \E p \in procs : GitUrlBlockId(p)
  \/ \E p \in procs : GitUrlGetBlock(p)
  \/ \E p \in procs : GitUrlMode(p)
  \/ \E p \in procs : GitUrlInteractive(p)
  \/ \E p \in procs : GitUrlConfirm(p)
  \/ \E p \in procs : GitUrlSend(p)
  \/ \E p \in procs : DisconnectStatus(p)
  \/ \E p \in procs : DisconnectSend(p)
  \/ \E p \in procs : LoginStatus(p)
  \/ \E p \in procs : LoginUrl(p)
  \/ LoginPolling

CliSpec == CliInit /\ [][CliNext]_vars

\* The timer of wait(2) fires and every request settles within the timeout of
\* api.ts line 91, so a round of the polling loop that can be taken is taken.
CliFairSpec == CliSpec /\ WF_vars(LoginPolling)

(***************************************************************************)
(* Two invocations of sync against one package                             *)
(***************************************************************************)
\* The bodies the two invocations may read: one knows alice only, one bob only.
ConcSnapshots ==
  { [registry |-> <<Item(Widget, WidgetEntry)>>,
     authorRegistry |-> <<AuthorItem(Alice, <<Item(Widget, WidgetEntry)>>)>>],
    [registry |-> <<Item(Widget, WidgetOfBob)>>,
     authorRegistry |-> <<AuthorItem(Bob, <<Item(Widget, WidgetOfBob)>>)>>] }

\* Both invocations have entered syncCommand (lines 27-32) in the directory next
\* to the package.
ConcInit ==
  /\ procs = {1, 2}
  /\ pc = [p \in procs |-> "fetch"]
  /\ registry = [p \in procs |-> <<>>]
  /\ authorRegistry = [p \in procs |-> <<>>]
  /\ mextBlockPath = [p \in procs |-> 0]
  /\ content = [p \in procs |-> None]
  /\ authorIdx = [p \in procs |-> 1]
  /\ exitCode = [p \in procs |-> 0]
  /\ report = [p \in procs |-> <<"syncing">>]
  /\ errorMessage = [p \in procs |-> ""]
  /\ ops = [p \in procs |-> <<>>]
  /\ pkgJson = <<"target", "absent", "absent">>
  /\ tree \in InitialTrees
  /\ treeAtStart = [p \in procs |-> tree]
  /\ clock = 1
  /\ runs = 2
  /\ appends = 0
  /\ syn = None
  /\ synthesized = [p \in procs |-> {}]
  /\ CliIdle

\* The steps of the two invocations, taken in any order.
ConcNext ==
  \/ \E p \in procs : FetchFails(p)
  \/ \E p \in procs : FetchFrom(p, ConcSnapshots)
  \/ \E p \in procs : Display(p)
  \/ \E p \in procs : Locate(p)
  \/ \E p \in procs : NamedSynth(p)
  \/ \E p \in procs : NamedMkdir(p)
  \/ \E p \in procs : NamedWrite(p)
  \/ \E p \in procs : IndexPatch(p)
  \/ \E p \in procs : AuthorsPurge(p)
  \/ \E p \in procs : AuthorsMkdir(p)
  \/ \E p \in procs : AuthorMkdir(p)
  \/ \E p \in procs : AuthorSynth(p)
  \/ \E p \in procs : AuthorWrite(p)
  \/ \E p \in procs : Finish(p)
  \/ \E p \in procs : FsError(p)

ConcSpec == ConcInit /\ [][ConcNext]_vars

(***************************************************************************)
(* One invocation of sync, whatever the three candidate directories hold   *)
(***************************************************************************)
\* Every content of the three package.json files.
AllPackageLayouts ==
  {<<a, b, c>> : a \in DescriptorStates, b \in DescriptorStates, c \in DescriptorStates}

\* syncCommand has been entered (lines 27-32) in a directory whose neighbours
\* are in any of the layouts.
LocateInit ==
  /\ procs = {1}
  /\ pc = [p \in procs |-> "fetch"]
  /\ registry = [p \in procs |-> <<>>]
  /\ authorRegistry = [p \in procs |-> <<>>]
  /\ mextBlockPath = [p \in procs |-> 0]
  /\ content = [p \in procs |-> None]
  /\ authorIdx = [p \in procs |-> 1]
  /\ exitCode = [p \in procs |-> 0]
  /\ report = [p \in procs |-> <<"syncing">>]
  /\ errorMessage = [p \in procs |-> ""]
  /\ ops = [p \in procs |-> <<>>]
  /\ pkgJson \in AllPackageLayouts
  /\ tree \in InitialTrees
  /\ treeAtStart = [p \in procs |-> tree]
  /\ clock = 1
  /\ runs = 1
  /\ appends = 0
  /\ syn = None
  /\ synthesized = [p \in procs |-> {}]
  /\ CliIdle

LocateSpec == LocateInit /\ [][ConcNext]_vars

(***************************************************************************)
(* Properties                                                              *)
(***************************************************************************)
Range(seq) == {seq[i] : i \in 1..Len(seq)}

Said(p, message) == message \in Range(report[p])

Called(p, op) == op \in Range(ops[p])

Occurrences(text, needle) ==
  Cardinality({i \in 1..(Len(text) - Len(needle) + 1) :
                 SubSeq(text, i, i + Len(needle) - 1) = needle})

\* No candidate directory holds the package.json of @mexty/block.
NoTargetDescriptor == \A i \in 1..Len(Candidates) : pkgJson[i] # "target"

\* C1: over any sequence of sync runs on the same src/index.ts the re-export text
\* is appended at most once, and patching a patched file changes nothing.
C1_ReexportAppendedAtMostOnce ==
  /\ appends <= 1
  /\ tree.index # None =>
       /\ PatchedIndex(PatchedIndex(tree.index[1])) = PatchedIndex(tree.index[1])
       /\ Occurrences(tree.index[1], AppendedText) <= 1

\* A second run has passed the patch step of a file the first run appended to,
\* and has not written it.
C1_SecondPatchLeavesFile ==
  \E p \in procs :
    /\ runs = 2
    /\ appends = 1
    /\ pc[p] = "authors_purge"
    /\ ~Called(p, "write index.ts")
    /\ tree.index # None
    /\ tree.index = treeAtStart[p].index
    /\ Occurrences(tree.index[1], AppendedText) = 1

\* The authors directory holds one subdirectory per author key of the snapshot of p,
\* each with the entry file this run generated and nothing else.
DirectoryReflectsSnapshot(p) ==
  LET dir == IF tree.authors = None THEN <<>> ELSE tree.authors[1]
  IN /\ DOMAIN dir = KeySet(authorRegistry[p])
     /\ \A a \in DOMAIN dir :
          /\ DOMAIN dir[a] = {EntryFile}
          /\ dir[a][EntryFile].kind = "author"
          /\ dir[a][EntryFile].authorComment = a
          /\ dir[a][EntryFile].generatedOn = clock

\* C2 as stated: once a run has terminated successfully, the authors directory of
\* the package reflects exactly that run's snapshot.
C2_DirectoryReflectsEverySuccessfulRun ==
  \A p \in procs :
    (pc[p] = "done" /\ exitCode[p] = 0 /\ ~NoTargetDescriptor) => DirectoryReflectsSnapshot(p)

\* C2 amended: once a run that fetched a non-empty global registry and found the
\* package has terminated successfully, the authors directory reflects exactly
\* that run's snapshot.
C2_DirectoryReflectsMaterializedRun ==
  \A p \in procs :
    (pc[p] = "done" /\ exitCode[p] = 0 /\ Len(registry[p]) > 0 /\ ~NoTargetDescriptor)
      => tree.authors # None /\ DirectoryReflectsSnapshot(p)

\* A run with only alice has ended in a package that held alice and bob.
C2_BobRemoved ==
  \E p \in procs :
    /\ pc[p] = "done"
    /\ Said(p, "exports-updated")
    /\ treeAtStart[p].authors # None
    /\ DOMAIN treeAtStart[p].authors[1] = {Alice, Bob}
    /\ KeySet(authorRegistry[p]) = {Alice}
    /\ tree.authors # None
    /\ DOMAIN tree.authors[1] = {Alice}

IdentifierStart ==
  { "A", "B", "C", "D", "E", "F", "G", "H", "I", "J", "K", "L", "M", "N", "O", "P", "Q",
    "R", "S", "T", "U", "V", "W", "X", "Y", "Z", "a", "b", "c", "d", "e", "f", "g", "h",
    "i", "j", "k", "l", "m", "n", "o", "p", "q", "r", "s", "t", "u", "v", "w", "x", "y",
    "z", "_", "$" }

IdentifierPart == IdentifierStart \cup {"0", "1", "2", "3", "4", "5", "6", "7", "8", "9"}

\* A valid identifier of the generated language.
IsIdentifier(name) ==
  /\ name # <<>>
  /\ name[1] \in IdentifierStart
  /\ \A i \in 1..Len(name) : name[i] \in IdentifierPart

HasInvalidName(reg, authors) ==
  \/ \E i \in 1..Len(reg) : ~IsIdentifier(reg[i].key)
  \/ \E a \in 1..Len(authors) :
       \E i \in 1..Len(authors[a].components) : ~IsIdentifier(authors[a].components[i].key)

\* The calls that write a file.
FileWrites == {"write namedExports.ts", "write index.ts", "write author entry"}

\* Every binding of the generated files of the package has a valid identifier as name.
EmittedNamesValid ==
  /\ tree.namedExports # None =>
       \A i \in 1..Len(tree.namedExports[1].bindings) :
         IsIdentifier(tree.namedExports[1].bindings[i].name)
  /\ tree.authors # None =>
       \A a \in DOMAIN tree.authors[1] :
         EntryFile \in DOMAIN tree.authors[1][a] =>
           \A i \in 1..Len(tree.authors[1][a][EntryFile].bindings) :
             IsIdentifier(tree.authors[1][a][EntryFile].bindings[i].name)

\* C3: a run whose snapshot holds a componentName that is no valid identifier
\* writes no file and does not end reporting the exports as updated, and no
\* generated file ever holds such a name.
C3_InvalidIdentifierRejected ==
  /\ EmittedNamesValid
  /\ \A p \in procs :
       HasInvalidName(registry[p], authorRegistry[p]) =>
         /\ Range(ops[p]) \cap FileWrites = {}
         /\ ~(pc[p] = "done" /\ Said(p, "exports-updated"))

\* The value of a single-quoted string literal of the generated language.
RECURSIVE LiteralBody(_, _)
LiteralBody(rest, value) ==
  IF rest = <<>> THEN [ok |-> FALSE, value |-> value]
  ELSE IF rest[1] = SQ THEN [ok |-> Len(rest) = 1, value |-> value]
  ELSE IF rest[1] = NL THEN [ok |-> FALSE, value |-> value]
  ELSE IF rest[1] = BS
    THEN IF Len(rest) < 2 THEN [ok |-> FALSE, value |-> value]
         ELSE IF rest[2] = NL THEN LiteralBody(SubSeq(rest, 3, Len(rest)), value)
         ELSE LiteralBody(SubSeq(rest, 3, Len(rest)),
                          Append(value, IF rest[2] = "n" THEN NL ELSE rest[2]))
  ELSE LiteralBody(Tail(rest), Append(value, rest[1]))

ParseLiteral(text) ==
  IF text = <<>> \/ text[1] # SQ THEN [ok |-> FALSE, value |-> <<>>]
  ELSE LiteralBody(Tail(text), <<>>)

ParsesTo(text, value) == ParseLiteral(text) = [ok |-> TRUE, value |-> value]

HasQuote(s) == \E i \in 1..Len(s) : s[i] \in {SQ, DQ}

\* Every description literal of the synthesised modules, with its source text.
DescriptionLiterals(reg, authors, out) ==
  { <<reg[i].entry.description, out.global.metadata.components[i].description>> :
      i \in 1..Len(reg) }
  \cup UNION { { <<authors[a].components[i].entry.description,
                   out.global.metadata.authors[a].components[i].description>> :
                 i \in 1..Len(authors[a].components) } : a \in 1..Len(authors) }
  \cup UNION { { <<authors[a].components[i].entry.description,
                   out.authors[a].metadata.components[i].description>> :
                 i \in 1..Len(authors[a].components) } : a \in 1..Len(authors) }

\* C4: every description that contains a quote character appears in the generated
\* metadata as a string literal whose value is the description.
C4_QuotedDescriptionParsesBack ==
  syn # None /\ syn.first # None =>
    \A pair \in DescriptionLiterals(syn.registry, syn.authorRegistry, syn.first[1]) :
      HasQuote(pair[1]) => ParsesTo(pair[2], pair[1])

\* The synthesised modules with the generation times blanked.
WithoutTimes(out) ==
  [ global |-> [out.global EXCEPT !.generatedOn = 0, !.metadata.lastGenerated = 0],
    authors |-> [a \in 1..Len(out.authors) |->
                   [out.authors[a] EXCEPT !.generatedOn = 0, !.metadata.lastGenerated = 0]] ]

\* C5: two syntheses of one snapshot differ in nothing but the generation times.
C5_SynthesisDeterministic ==
  syn # None /\ syn.phase = "twice" =>
    WithoutTimes(syn.first[1]) = WithoutTimes(syn.second[1])

\* One snapshot was synthesised at two different times.
C5_SynthesisedTwice ==
  /\ syn # None
  /\ syn.phase = "twice"
  /\ syn.first[1].global.generatedOn # syn.second[1].global.generatedOn
  /\ syn.first[1].global.metadata.lastGenerated # syn.second[1].global.metadata.lastGenerated

\* The entry file of author under the authors directory exports name once, built
\* from the author's own key and the name.
ExportsOwnBinding(author, name) ==
  /\ tree.authors # None
  /\ author \in DOMAIN tree.authors[1]
  /\ EntryFile \in DOMAIN tree.authors[1][author]
  /\ LET file == tree.authors[1][author][EntryFile]
     IN /\ file.kind = "author"
        /\ Cardinality({i \in 1..Len(file.bindings) : file.bindings[i].name = name}) = 1
        /\ \A i \in 1..Len(file.bindings) :
             file.bindings[i].name = name =>
               /\ file.bindings[i].factory = "createAuthorBlock"
               /\ file.bindings[i].args = << <<SQ>> \o author \o <<SQ>>,
                                             <<SQ>> \o name \o <<SQ>> >>

\* Two different authors of the snapshot of p that own a component of one name.
SharedNames(p) ==
  { <<a, b, n>> \in KeySet(authorRegistry[p]) \X KeySet(authorRegistry[p])
                     \X UNION { KeySet(authorRegistry[p][x].components) :
                                  x \in 1..Len(authorRegistry[p]) } :
      /\ a # b
      /\ \E x, y \in 1..Len(authorRegistry[p]) :
           /\ authorRegistry[p][x].key = a
           /\ authorRegistry[p][y].key = b
           /\ n \in KeySet(authorRegistry[p][x].components)
           /\ n \in KeySet(authorRegistry[p][y].components) }

\* C6: when two authors own a component of the same name, each has its own entry
\* file that exports the binding built from its own key.
C6_NamespacesIsolated ==
  \A p \in procs :
    (pc[p] = "done" /\ Said(p, "exports-updated")) =>
      \A t \in SharedNames(p) : ExportsOwnBinding(t[1], t[3]) /\ ExportsOwnBinding(t[2], t[3])

\* A run ended with Widget under alice and under bob.
C6_WidgetUnderTwoAuthors ==
  \E p \in procs :
    /\ pc[p] = "done"
    /\ Said(p, "exports-updated")
    /\ <<Alice, Bob, Widget>> \in SharedNames(p)
    /\ ExportsOwnBinding(Alice, Widget)
    /\ ExportsOwnBinding(Bob, Widget)

\* C7: a run that read a body with an empty registry and an empty author registry ends
\* successfully, reports that there is nothing to sync, and leaves the package as
\* it found it.
C7_EmptyRegistryWritesNothing ==
  \A p \in procs :
    (Said(p, "fetched") /\ errorMessage[p] # "shape"
       /\ registry[p] = <<>> /\ authorRegistry[p] = <<>>) =>
      /\ pc[p] \in {"display", "done"}
      /\ exitCode[p] = 0
      /\ ops[p] = <<>>
      /\ tree = treeAtStart[p]
      /\ pc[p] = "done" => Said(p, "no-components") /\ ~Said(p, "failed-to-sync")

\* A run with an empty snapshot ended beside a package it could have written to.
C7_EmptyRunEnded ==
  \E p \in procs :
    /\ pc[p] = "done"
    /\ Said(p, "no-components")
    /\ registry[p] = <<>>
    /\ authorRegistry[p] = <<>>
    /\ ~NoTargetDescriptor
    /\ tree.authors # None

\* C8: a failed fetch ends the run with exit code 1 and the package untouched,
\* and nothing past the fetch runs without a fetched body.
C8_FetchFailureFatal ==
  \A p \in procs :
    /\ ~Said(p, "fetched") =>
         /\ pc[p] \in {"idle", "fetch", "failed"}
         /\ ops[p] = <<>>
         /\ tree = treeAtStart[p]
    /\ (pc[p] = "failed" /\ errorMessage[p] \in FetchFailures) =>
         /\ exitCode[p] = 1
         /\ errorMessage[p] \in {"network", "http", "json"} => ~Said(p, "fetched")
         /\ ~Said(p, "completed")
         /\ ops[p] = <<>>
         /\ tree = treeAtStart[p]

\* A fetch failed beside a package the run could have written to.
C8_FetchFailed ==
  \E p \in procs :
    /\ pc[p] = "failed"
    /\ errorMessage[p] = "http"
    /\ exitCode[p] = 1
    /\ ~NoTargetDescriptor

\* C9: without a candidate holding the target descriptor the run writes and
\* removes nothing, and a run that got to the package search ends successfully,
\* saying that the package was not found.
C9_MissingPackageSkipsCodegen ==
  \A p \in procs :
    NoTargetDescriptor =>
      /\ ops[p] = <<>>
      /\ tree = treeAtStart[p]
      /\ Said(p, "listed") =>
           /\ pc[p] \in {"locate", "done"}
           /\ exitCode[p] = 0
           /\ ~Said(p, "failed-to-sync")
           /\ ~Said(p, "exports-updated")
           /\ pc[p] = "done" => Said(p, "package-not-found") /\ Said(p, "completed")

\* A run ended with the package not found, among candidates that hold other
\* descriptors.
C9_PackageNotFound ==
  \E p \in procs :
    /\ NoTargetDescriptor
    /\ pkgJson[1] = "other"
    /\ pc[p] = "done"
    /\ Said(p, "package-not-found")
    /\ Len(registry[p]) > 0

\* The mutating file system calls a complete run of p makes.
PlannedCalls(p) ==
  (IF treeAtStart[p].src THEN 0 ELSE 1) + 1
  + (IF treeAtStart[p].index # None /\ ~Includes(treeAtStart[p].index[1], Needle) THEN 1 ELSE 0)
  + (IF treeAtStart[p].authors # None THEN 1 ELSE 0) + 1
  + 2 * Len(authorRegistry[p])

\* The entry file of the a-th author of the snapshot of p, written by this run, is there.
EntryWritten(p, a) ==
  LET author == authorRegistry[p][a].key
  IN /\ tree.authors # None
     /\ author \in DOMAIN tree.authors[1]
     /\ EntryFile \in DOMAIN tree.authors[1][author]
     /\ tree.authors[1][author][EntryFile] =
          AuthorEntryContent(author, authorRegistry[p][a].components, clock, clock)

\* C10: after a file system call failed, the run has exit code 1 and reports no
\* success, it made fewer calls than a complete run, and what it wrote before
\* the failure is in place.
C10_MaterializationFailureKeepsFiles ==
  \A p \in procs :
    (pc[p] = "failed" /\ errorMessage[p] = "fs") =>
      /\ exitCode[p] = 1
      /\ ~Said(p, "completed")
      /\ ~Said(p, "exports-updated")
      /\ Len(ops[p]) < PlannedCalls(p)
      /\ Called(p, "write namedExports.ts") =>
           tree.namedExports =
             Some(NamedExportsContent(registry[p], authorRegistry[p], clock, clock))
      /\ Called(p, "write index.ts") =>
           tree.index = Some(treeAtStart[p].index[1] \o AppendedText)
      /\ Called(p, "rm authors") =>
           \A a \in 1..Len(authorRegistry[p]) : a < authorIdx[p] => EntryWritten(p, a)

\* A run failed between the entry files of two authors.
C10_FailedBetweenAuthors ==
  \E p \in procs :
    /\ pc[p] = "failed"
    /\ errorMessage[p] = "fs"
    /\ Called(p, "write namedExports.ts")
    /\ Called(p, "write author entry")
    /\ authorIdx[p] = 2
    /\ Len(authorRegistry[p]) = 2
    /\ EntryWritten(p, 1)
    /\ ~EntryWritten(p, 2)

\* The fields an entry of a registry must have.
RequiredFields == {"blockId", "title", "description", "lastUpdated"}

MalformedEntry(entry) == \E f \in RequiredFields : f \notin DOMAIN entry

Malformed(reg, authors) ==
  \/ \E i \in 1..Len(reg) : MalformedEntry(reg[i].entry)
  \/ \E a \in 1..Len(authors) :
       \E i \in 1..Len(authors[a].components) : MalformedEntry(authors[a].components[i].entry)

\* C11: a run that failed has exit code 1 and printed a failure message with the
\* cause and no success report, and a run whose snapshot has a validation error
\* (an invalid identifier, a malformed entry) and that found the package neither
\* ends successfully nor reports success.
C11_FatalErrorsEndRun ==
  \A p \in procs :
    /\ pc[p] = "failed" =>
         /\ exitCode[p] = 1
         /\ Said(p, "failed-to-sync")
         /\ errorMessage[p] # ""
         /\ ~Said(p, "completed")
         /\ ~Said(p, "exports-updated")
    /\ ( /\ mextBlockPath[p] # 0
         /\ \/ HasInvalidName(registry[p], authorRegistry[p])
            \/ Malformed(registry[p], authorRegistry[p]) ) =>
         /\ pc[p] # "done"
         /\ ~Said(p, "completed")

IsPrefix(a, b) == Len(a) <= Len(b) /\ SubSeq(b, 1, Len(a)) = a

\* C12: the src/index.ts a run found is a prefix of the file at every later
\* moment of the run, and a file that held the re-export statement is never
\* written by the run.
C12_IndexContentKept ==
  \A p \in procs :
    treeAtStart[p].index # None =>
      /\ tree.index # None
      /\ IsPrefix(treeAtStart[p].index[1], tree.index[1])
      /\ Includes(treeAtStart[p].index[1], Needle) =>
           /\ tree.index = treeAtStart[p].index
           /\ ~Called(p, "write index.ts")

\* A run appended the re-export to a file with hand-written exports, among them
\* the re-export in double quotes, which the test of line 212 does not find.
C12_AppendedAfterHandWritten ==
  \E p \in procs :
    /\ pc[p] = "done"
    /\ Called(p, "write index.ts")
    /\ treeAtStart[p].index = Some(HandWritten \o DoubleQuotedReexport)
    /\ tree.index = Some(HandWritten \o DoubleQuotedReexport \o AppendedText)

\* A generated global module on disk holds a literal built from a missing value.
GarbageOnDisk ==
  /\ tree.namedExports # None
  /\ \E i \in 1..Len(tree.namedExports[1].metadata.components) :
       LET e == tree.namedExports[1].metadata.components[i]
       IN Quoted(Undefined) \in {e.blockId, e.title, e.lastUpdated}

\* C13: a run whose snapshot holds a malformed entry writes no file, removes
\* nothing and does not report the exports as updated, and no literal built from
\* a missing value is on disk.
C13_MalformedEntryAbortsBeforeWrite ==
  /\ ~GarbageOnDisk
  /\ \A p \in procs :
       Malformed(registry[p], authorRegistry[p]) =>
         /\ Range(ops[p]) \cap (FileWrites \cup {"rm authors"}) = {}
         /\ tree.namedExports = treeAtStart[p].namedExports
         /\ tree.index = treeAtStart[p].index
         /\ tree.authors = treeAtStart[p].authors
         /\ ~Said(p, "exports-updated")

\* The operations C19 orders, in the order of the claim.
ClaimedRank(op) ==
  CASE op = "rm authors" -> 1
    [] op = "write author entry" -> 2
    [] op = "write namedExports.ts" -> 3
    [] op = "write index.ts" -> 4
    [] OTHER -> 0

\* C19 as stated: within a run the purge comes first, then the author entry
\* files, then the global exports file, then the patch of the entry point.
C19_PurgeAuthorsGlobalPatch ==
  \A p \in procs :
    \A i, j \in 1..Len(ops[p]) :
      (i < j /\ ClaimedRank(ops[p][i]) # 0 /\ ClaimedRank(ops[p][j]) # 0) =>
        ClaimedRank(ops[p][i]) <= ClaimedRank(ops[p][j])

\* The mutating calls in the order of the code.
CodeRank(op) ==
  CASE op = "mkdir src" -> 1
    [] op = "write namedExports.ts" -> 2
    [] op = "write index.ts" -> 3
    [] op = "rm authors" -> 4
    [] op = "mkdir authors" -> 5
    [] OTHER -> 6

\* C19 amended: within a run the global exports file is written first, then the
\* entry point is patched, then the authors directory is purged and recreated,
\* then the author entry files are written, one author after the other.
C19_GlobalPatchPurgeAuthors ==
  \A p \in procs :
    /\ \A i, j \in 1..Len(ops[p]) :
         i < j =>
           /\ CodeRank(ops[p][i]) <= CodeRank(ops[p][j])
           /\ CodeRank(ops[p][i]) = CodeRank(ops[p][j]) => CodeRank(ops[p][i]) = 6
    /\ \A i \in 1..Len(ops[p]) :
         /\ ops[p][i] = "write author entry" => (i > 1 /\ ops[p][i - 1] = "mkdir author")
         /\ (ops[p][i] = "mkdir author" /\ i > 1) =>
              ops[p][i - 1] \in {"mkdir authors", "write author entry"}
    /\ (ops[p] # <<>> /\ ops[p][1] # "mkdir src") => ops[p][1] = "write namedExports.ts"

\* A run made all four kinds of operation.
C19_AllFourOperations ==
  \E p \in procs :
    /\ pc[p] = "done"
    /\ Called(p, "write namedExports.ts")
    /\ Called(p, "write index.ts")
    /\ Called(p, "rm authors")
    /\ Called(p, "write author entry")

EntriesWritten(p) == Cardinality({i \in 1..Len(ops[p]) : ops[p][i] = "write author entry"})

Shown(p, message) == message \in Range(printed[p])

Requested(p, call) == call \in Range(requests[p])

DidLocally(p, op) == op \in Range(localOps[p])

\* C14: in a publish, the sync run starts only after the save-and-bundle request
\* succeeded, and a sync run that fails leaves the exit code of the publish at 0:
\* the publish goes on, prints the warning and returns.
C14_SyncFailureDoesNotFailPublish ==
  \A p \in procs :
    command[p] = "publish" =>
      /\ pc[p] # "idle" =>
           /\ requests[p] = <<"saveAndBundle">>
           /\ Shown(p, "published")
      /\ pc[p] = "failed" =>
           /\ exitCode[p] = 0
           /\ at[p] \in {"in_sync", "returned"}
           /\ at[p] = "returned" => Shown(p, "registry-sync-failed")

\* The git calls and the build request of a save, in the order they were made.
SaveSteps(p) ==
  SelectSeq(localOps[p], LAMBDA op : op # "clear token") \o requests[p]

\* C15: the steps of a save are made in the order git add, git commit, git
\* push, save-and-bundle; the first two only when uncommitted changes were
\* found, the request only after the push succeeded; and the step that failed is
\* the last one, the command ending with exit code 1.
C15_SaveStepsInOrder ==
  \A p \in procs :
    command[p] = "save" =>
      /\ \/ IsPrefix(SaveSteps(p), <<"git add", "git commit", "git push", "saveAndBundle">>)
         \/ IsPrefix(SaveSteps(p), <<"git push", "saveAndBundle">>)
      /\ (DidLocally(p, "git add") \/ DidLocally(p, "git commit")) =>
           Shown(p, "found-changes") /\ ~Shown(p, "no-changes")
      /\ DidLocally(p, "git commit") => Shown(p, "staged")
      /\ DidLocally(p, "git push") /\ Shown(p, "found-changes") => Shown(p, "committed")
      /\ Requested(p, "saveAndBundle") => Shown(p, "pushed")
      /\ \A failure \in {"failed-to-stage", "failed-to-commit", "failed-to-push",
                         "build-failed"} :
           Shown(p, failure) =>
             /\ at[p] = "exited" /\ exitCode[p] = 1
             /\ printed[p][Len(printed[p])] = failure
             /\ SaveSteps(p)[Len(SaveSteps(p))] =
                  CASE failure = "failed-to-stage" -> "git add"
                    [] failure = "failed-to-commit" -> "git commit"
                    [] failure = "failed-to-push" -> "git push"
                    [] failure = "build-failed" -> "saveAndBundle"

\* A save with uncommitted changes went through its four steps.
C15_SavedAfterCommit ==
  \E p \in procs :
    /\ command[p] = "save" /\ at[p] = "returned" /\ Shown(p, "saved")
    /\ SaveSteps(p) = <<"git add", "git commit", "git push", "saveAndBundle">>

\* The answers of Answers that are y or yes, whatever the case of the letters
\* and the white space around them.
YesAnswers == { <<"y">>, <<" ", "Y", "E", "S", NL>> }

\* C16: a delete request is sent only after the block was fetched and the user
\* answered y or yes; after any other answer no delete request is sent and the
\* command ends with exit code 0.
C16_DeleteOnlyAfterFetchAndYes ==
  \A p \in procs :
    command[p] = "delete" =>
      /\ Requested(p, "deleteBlock") =>
           /\ requests[p] = <<"getBlock", "deleteBlock">>
           /\ Shown(p, "block-info")
           /\ Len(answered[p]) = 1 /\ answered[p][1] \in YesAnswers
      /\ answered[p] # <<>> /\ answered[p][1] \notin YesAnswers =>
           /\ requests[p] = <<"getBlock">>
           /\ at[p] = "returned" /\ exitCode[p] = 0
           /\ Shown(p, "deletion-cancelled")

\* The block was deleted after the answer YES typed with white space around it.
C16_DeletedAfterYes ==
  \E p \in procs :
    /\ command[p] = "delete" /\ Shown(p, "block-deleted")
    /\ answered[p] = << <<" ", "Y", "E", "S", NL>> >>

\* C17: while the auth file holds no token (and none was removed by this
\* command), a guarded command has sent no request, changed nothing locally and
\* started no sync run, and it is either at its first statement or has exited
\* with code 1 after the message of checkAuthentication.
C17_NoTokenNoStep ==
  \A p \in procs :
    (command[p] \in GuardedCommands /\ authFile # "token"
       /\ ~DidLocally(p, "clear token")) =>
      /\ requests[p] = <<>> /\ localOps[p] = <<>> /\ answered[p] = <<>>
      /\ pc[p] = "idle" /\ ops[p] = <<>> /\ tree = treeAtStart[p]
      /\ at[p] \in {"start", "exited"}
      /\ at[p] = "exited" =>
           exitCode[p] = 1 /\ printed[p] = <<"authentication-required">>

\* A publish found an auth file without a token and exited.
C17_PublishRefused ==
  \E p \in procs :
    /\ command[p] = "publish" /\ authFile = "no-token"
    /\ at[p] = "exited" /\ exitCode[p] = 1 /\ requests[p] = <<>>

\* The status checks of the polling loop: the status requests sent after the
\* request for the OAuth URL.
RECURSIVE ChecksIn(_)
ChecksIn(calls) ==
  IF calls = <<>> THEN 0
  ELSE IF calls[Len(calls)] = "getGitHubAuthUrl" THEN 0
  ELSE ChecksIn(SubSeq(calls, 1, Len(calls) - 1))
         + (IF calls[Len(calls)] = "getGitHubStatus" THEN 1 ELSE 0)

StatusChecks(p) ==
  IF Requested(p, "getGitHubAuthUrl") THEN ChecksIn(requests[p]) ELSE 0

\* What holds in every state of a github-login.
PollingBounded(p) ==
  /\ StatusChecks(p) <= maxAttempts
  /\ StatusChecks(p) = attempts[p]
  /\ connected[p] =>
       /\ Shown(p, "github-connected") /\ exitCode[p] = 0
       /\ at[p] \in {"login_poll", "returned"}
  /\ (at[p] = "returned" /\ Requested(p, "getGitHubAuthUrl")) => connected[p]
  /\ Shown(p, "authentication-timeout") =>
       /\ at[p] = "exited" /\ exitCode[p] = 1
       /\ ~connected[p] /\ StatusChecks(p) = maxAttempts
  /\ (at[p] = "exited" /\ StatusChecks(p) > 0) => Shown(p, "authentication-timeout")

\* C18: a github-login makes at most maxAttempts status checks, every check
\* counted whether it answers or throws; once a check reports the connection no
\* further request is sent and the command returns with exit code 0; it exits
\* with code 1 only after maxAttempts checks none of which reported it; and a
\* command that entered the loop leaves it.
C18_PollingTerminates ==
  /\ [](\A p \in procs : command[p] = "github-login" => PollingBounded(p))
  /\ [][\A p \in procs : connected[p] => requests'[p] = requests[p]]_vars
  /\ (\E p \in procs : at[p] = "login_poll")
       ~> (\A p \in procs : at[p] \in {"returned", "exited"})

\* The loop ran out after maxAttempts checks, one of them answered with a 401.
C18_TimedOutAfterThrowingCheck ==
  \E p \in procs :
    /\ command[p] = "github-login" /\ at[p] = "exited"
    /\ attempts[p] = maxAttempts /\ DidLocally(p, "clear token")
    /\ requests[p][Len(requests[p])] = "getGitHubStatus"

(***************************************************************************)
(* Concurrent invocations                                                  *)
(***************************************************************************)
\* The authors the directory holds a subdirectory of.
AuthorsOnDisk == IF tree.authors = None THEN {} ELSE DOMAIN tree.authors[1]

\* C21: no lock protects the package: an invocation that stands at its purge,
\* at one of its mkdir calls or at the synthesis of an author module can take
\* that step whatever step the other invocation is at, and at its write it is
\* held up by nothing but the absence of the directory it writes into, in which
\* case the write throws.
C21_NoLockOnPackage ==
  \A p \in procs :
    /\ pc[p] = "authors_purge" => ENABLED AuthorsPurge(p)
    /\ pc[p] = "authors_mkdir" => ENABLED AuthorsMkdir(p)
    /\ pc[p] = "author_mkdir" => ENABLED AuthorMkdir(p)
    /\ pc[p] = "author_synth" => ENABLED AuthorSynth(p)
    /\ pc[p] = "author_write" =>
         /\ ENABLED AuthorWrite(p) <=> AuthorDirExists(p)
         /\ ENABLED FsError(p)

\* Both invocations ended with success, and the authors directory holds alice
\* and bob: neither the snapshot with alice only nor the one with bob only.
C21_DirectoryOfNeitherSnapshot ==
  /\ Cardinality(procs) = 2
  /\ \A p \in procs : pc[p] = "done" /\ exitCode[p] = 0 /\ Said(p, "completed")
  /\ \A p \in procs : AuthorsOnDisk # KeySet(authorRegistry[p])
  /\ AuthorsOnDisk = {Alice, Bob}
  /\ \E p \in procs : KeySet(authorRegistry[p]) = {Alice}
  /\ \E p \in procs : KeySet(authorRegistry[p]) = {Bob}

(***************************************************************************)
(* String literals of the generated modules                                *)
(***************************************************************************)
\* The literals a metadata entry m holds of the strings of the entry e it was
\* built from, each with its source: block id, title, description, and the tag of
\* an entry with one tag (the text between the brackets of the list).
EntryLiterals(e, m) ==
  { <<e[f], m[f]>> : f \in {"blockId", "title", "description"} \cap DOMAIN e }
  \cup (IF "tags" \in DOMAIN e /\ Len(e.tags) = 1 /\ Len(m.tags) >= 2
          THEN { <<e.tags[1], SubSeq(m.tags, 2, Len(m.tags) - 1)>> }
          ELSE {})

\* Every such literal of the global module and of the author modules.
FieldLiterals(reg, authors, out) ==
  UNION { EntryLiterals(reg[i].entry, out.global.metadata.components[i]) :
            i \in 1..Len(reg) }
  \cup UNION { UNION { EntryLiterals(authors[a].components[i].entry,
                                      out.global.metadata.authors[a].components[i]) :
                         i \in 1..Len(authors[a].components) } : a \in 1..Len(authors) }
  \cup UNION { UNION { EntryLiterals(authors[a].components[i].entry,
                                      out.authors[a].metadata.components[i]) :
                         i \in 1..Len(authors[a].components) } : a \in 1..Len(authors) }

\* The string holds neither a backslash nor a line feed.
NoBackslashNoNewline(s) == \A i \in 1..Len(s) : s[i] \notin {BS, NL}

\* C22: every title, description, tag and block id that contains a quote
\* character (and neither backslash nor line feed) stands in the generated
\* metadata as a string literal that ends at its closing quote and whose value is
\* the string.
C22_QuoteEscapedInEveryField ==
  syn # None /\ syn.first # None =>
    \A pair \in FieldLiterals(syn.registry, syn.authorRegistry, syn.first[1]) :
      (HasQuote(pair[1]) /\ NoBackslashNoNewline(pair[1])) => ParsesTo(pair[2], pair[1])

\* C23: every description stands in the generated metadata as a string literal
\* on one line whose value is the description.
C23_DescriptionLiteralParsesBack ==
  syn # None /\ syn.first # None =>
    \A pair \in DescriptionLiterals(syn.registry, syn.authorRegistry, syn.first[1]) :
      /\ NL \notin Range(pair[2])
      /\ ParsesTo(pair[2], pair[1])

(***************************************************************************)
(* Structure of the generated modules                                      *)
(***************************************************************************)
Names(section) == [i \in 1..Len(section) |-> section[i].name]

MetaKeys(section) == [i \in 1..Len(section) |-> section[i].key]

\* C24: in the global module the bindings, the aggregate object, the metadata
\* components, the metadata authors and the components of each author, and in
\* each author module the bindings, the aggregate and the metadata components,
\* list the entries of the input map in its order, one for one.
C24_EntriesInInputOrder ==
  syn # None /\ syn.first # None =>
    LET out == syn.first[1]
        reg == syn.registry
        authors == syn.authorRegistry
    IN /\ Names(out.global.bindings) = Keys(reg)
       /\ out.global.aggregate = Keys(reg)
       /\ MetaKeys(out.global.metadata.components) = Keys(reg)
       /\ MetaKeys(out.global.metadata.authors) = Keys(authors)
       /\ Len(out.authors) = Len(authors)
       /\ \A a \in 1..Len(authors) :
            /\ MetaKeys(out.global.metadata.authors[a].components)
                 = Keys(authors[a].components)
            /\ a \in DOMAIN out.authors
            /\ out.authors[a].authorComment = authors[a].key
            /\ Names(out.authors[a].bindings) = Keys(authors[a].components)
            /\ out.authors[a].aggregate = Keys(authors[a].components)
            /\ MetaKeys(out.authors[a].metadata.components) = Keys(authors[a].components)

\* A registry that lists Widget before Chart, and bob before alice, was
\* synthesised.
C24_UnsortedMapSynthesised ==
  /\ syn # None /\ syn.first # None
  /\ Keys(syn.registry) = <<Widget, Chart>>
  /\ Keys(syn.authorRegistry) = <<Bob, Alice>>
  /\ syn.first[1].global.aggregate = <<Widget, Chart>>

\* C25: in the global module the exported bindings, the keys of the aggregate
\* object and the keys of the metadata components are exactly the component
\* names of the global registry, totalComponents is their number, and each
\* binding calls createNamedBlock with its component name and nothing else.
C25_GlobalModuleOverRegistryKeys ==
  syn # None /\ syn.first # None =>
    LET g == syn.first[1].global
        reg == syn.registry
    IN /\ Range(Names(g.bindings)) = KeySet(reg)
       /\ Range(g.aggregate) = KeySet(reg)
       /\ Range(MetaKeys(g.metadata.components)) = KeySet(reg)
       /\ Len(g.bindings) = Cardinality(KeySet(reg))
       /\ Len(g.aggregate) = Cardinality(KeySet(reg))
       /\ Len(g.metadata.components) = Cardinality(KeySet(reg))
       /\ g.metadata.totalComponents = Cardinality(KeySet(reg))
       /\ \A i \in 1..Len(g.bindings) :
            /\ g.bindings[i].factory = "createNamedBlock"
            /\ Len(g.bindings[i].args) = 1
            /\ ParsesTo(g.bindings[i].args[1], g.bindings[i].name)

\* A global module of two components, one of them with an author in the
\* registry, was synthesised.
C25_GlobalModuleOfTwo ==
  /\ syn # None /\ syn.first # None
  /\ Len(syn.registry) = 2
  /\ \E i \in 1..2 : Truthy(Get(syn.registry[i].entry, "author"))
  /\ syn.first[1].global.metadata.totalComponents = 2

\* C26: each author module exports one binding per component of that author,
\* made by createAuthorBlock(author, componentName), default-exports the
\* aggregate of exactly those bindings, and its metadata names the author once
\* at module level, counts the components, and has no author field per entry.
C26_AuthorModuleOverItsComponents ==
  syn # None /\ syn.first # None =>
    \A a \in 1..Len(syn.authorRegistry) :
      LET m == syn.first[1].authors[a]
          author == syn.authorRegistry[a].key
          components == syn.authorRegistry[a].components
      IN /\ Range(Names(m.bindings)) = KeySet(components)
         /\ Len(m.bindings) = Cardinality(KeySet(components))
         /\ \A i \in 1..Len(m.bindings) :
              /\ m.bindings[i].factory = "createAuthorBlock"
              /\ Len(m.bindings[i].args) = 2
              /\ ParsesTo(m.bindings[i].args[1], author)
              /\ ParsesTo(m.bindings[i].args[2], m.bindings[i].name)
         /\ m.aggregateName = "default"
         /\ Range(m.aggregate) = Range(Names(m.bindings))
         /\ Len(m.aggregate) = Len(m.bindings)
         /\ ParsesTo(m.metadata.author, author)
         /\ m.metadata.totalComponents = Cardinality(KeySet(components))
         /\ Range(MetaKeys(m.metadata.components)) = KeySet(components)
         /\ \A i \in 1..Len(m.metadata.components) :
              "author" \notin DOMAIN m.metadata.components[i]

\* The module of an author with two components, one of which carries an
\* author in the registry, was synthesised next to the module of an author
\* with one.
C26_AuthorModulesOfTwoAndOne ==
  /\ syn # None /\ syn.first # None
  /\ \E a, b \in 1..Len(syn.authorRegistry) :
       /\ syn.first[1].authors[a].metadata.totalComponents = 2
       /\ syn.first[1].authors[b].metadata.totalComponents = 1
       /\ \E i \in 1..2 :
            Truthy(Get(syn.authorRegistry[a].components[i].entry, "author"))

NoTags(entry) == "tags" \notin DOMAIN entry \/ entry.tags = <<>>

\* The metadata entries synthesised from the entries of one map, paired with
\* them.
TagsPairs(components, section) ==
  {<<components[i].entry, section[i]>> : i \in 1..Len(components)}

\* C27: an entry whose tags are an empty list, or absent, has in every
\* metadata section a tags field that is the empty list literal [].
C27_NoTagsRenderedAsEmptyList ==
  syn # None /\ syn.first # None =>
    LET out == syn.first[1]
        pairs ==
          TagsPairs(syn.registry, out.global.metadata.components)
            \cup UNION {TagsPairs(syn.authorRegistry[a].components,
                                  out.global.metadata.authors[a].components)
                          \cup TagsPairs(syn.authorRegistry[a].components,
                                         out.authors[a].metadata.components)
                        : a \in 1..Len(syn.authorRegistry)}
    IN \A pr \in pairs :
         NoTags(pr[1]) => "tags" \in DOMAIN pr[2] /\ pr[2].tags = <<"[", "]">>

\* A registry with an entry whose tags are [] and an entry without tags was
\* synthesised.
C27_EmptyAndAbsentTagsSynthesised ==
  /\ syn # None /\ syn.first # None
  /\ \E i \in 1..Len(syn.registry) :
       /\ "tags" \in DOMAIN syn.registry[i].entry
       /\ syn.registry[i].entry.tags = <<>>
       /\ syn.first[1].global.metadata.components[i].tags = <<"[", "]">>
  /\ \E i \in 1..Len(syn.registry) : "tags" \notin DOMAIN syn.registry[i].entry

(***************************************************************************)
(* Package location                                                        *)
(***************************************************************************)
Declares(i) == pkgJson[i] = "target"

\* C28: the package search returns the first of ../mext-block, ./mext-block,
\* ../../mext-block whose package.json declares the package; candidates whose
\* package.json is absent, unparseable or of another package are passed over
\* without failing the run; null is returned only when no candidate declares
\* the package.
C28_FirstDeclaringCandidate ==
  /\ Candidates = <<"../mext-block", "./mext-block", "../../mext-block">>
  /\ \A p \in procs :
       /\ pc[p] = "locate" => ENABLED Locate(p) /\ ~ENABLED FsError(p)
       /\ Said(p, "updating") =>
            /\ mextBlockPath[p] \in 1..Len(Candidates)
            /\ Declares(mextBlockPath[p])
            /\ \A j \in 1..(mextBlockPath[p] - 1) : ~Declares(j)
       /\ Said(p, "package-not-found") =>
            /\ mextBlockPath[p] = 0
            /\ \A i \in 1..Len(Candidates) : ~Declares(i)
            /\ exitCode[p] = 0
       /\ Said(p, "listed") /\ pc[p] # "locate" =>
            Said(p, "updating") \/ Said(p, "package-not-found")

\* The search passed over an unparseable package.json and one of another
\* package and returned the third candidate.
C28_ThirdCandidateAfterTwoSkipped ==
  \E p \in procs :
    /\ pkgJson[1] = "unparseable" /\ pkgJson[2] = "other" /\ pkgJson[3] = "target"
    /\ Said(p, "updating")
    /\ mextBlockPath[p] = 3

(***************************************************************************)
(* create: the clone and the invitation                                    *)
(***************************************************************************)
\* The URL git clone was given holds the token.
ClonedWithToken(p) ==
  \/ cloning[p].authenticatedUrl # cloning[p].gitUrl
  \/ Includes(cloning[p].authenticatedUrl, Token)

\* C29: cloneRepository gives git clone a URL with the token only when the
\* repository URL is a GitHub URL and the token request came back with success
\* and a token; when the request throws or brings no token, git clone is still
\* called, with the URL as it was given.
C29_TokenUrlOnlyWithToken ==
  \A p \in procs :
    command[p] = "create" =>
      LET c == cloning[p]
          granted == c.tokenData.thrown = "" /\ c.tokenData.success /\ c.tokenData.token = Token
      IN /\ DidLocally(p, "git clone") =>
              /\ ClonedWithToken(p) => Includes(c.gitUrl, GitHubCom) /\ granted
              /\ ~granted => c.authenticatedUrl = c.gitUrl
         /\ Requested(p, "getGitHubToken") =>
              \/ at[p] = "clone_git" /\ ENABLED CloneGit(p)
              \/ DidLocally(p, "git clone")

\* The repository given by its SSH URL was cloned from the HTTPS URL with the
\* token.
C29_ClonedFromTokenUrl ==
  \E p \in procs :
    /\ command[p] = "create"
    /\ DidLocally(p, "git clone")
    /\ cloning[p].gitUrl = SshUrl
    /\ cloning[p].authenticatedUrl = HttpsScheme \o Token \o AtGitHubCom \o RepoPath
    /\ Shown(p, "cloned")

InvitationChecks(p) ==
  Cardinality({k \in DOMAIN requests[p] : requests[p][k] = "checkGitHubInvitationStatus"})

CloneEntered(p) ==
  \/ at[p] \in {"create_clone", "clone_token", "clone_git", "create_chdir"}
  \/ Requested(p, "getGitHubToken")
  \/ DidLocally(p, "git clone")

\* What holds in every state of a create whose invitation was found pending.
InvitationAwaited(p) ==
  /\ attempts[p] <= 120
  /\ InvitationChecks(p) = 1 + attempts[p]
  /\ CloneEntered(p) => Shown(p, "invitation-accepted")
  /\ at[p] = "create_poll" /\ attempts[p] < 120 => ENABLED CreatePoll(p)
  /\ Shown(p, "invitation-timeout") =>
       /\ at[p] = "returned" /\ exitCode[p] = 0
       /\ attempts[p] = 120
       /\ ~Shown(p, "invitation-accepted")
       /\ ~CloneEntered(p)
  /\ at[p] = "returned" => Shown(p, "invitation-timeout") \/ Shown(p, "invitation-accepted")

\* C30: in create, once GitHub is connected and the invitation was found
\* pending, the clone is entered only after a check of the loop reported the
\* invitation accepted; the loop makes at most 120 checks; a check that throws
\* leaves the command in the loop; after 120 checks without acceptance the
\* command returns without the clone.
C30_CloneOnlyAfterAcceptance ==
  /\ [](\A p \in procs :
          command[p] = "create" /\ Shown(p, "access-required") => InvitationAwaited(p))
  /\ [][\A p \in procs :
          command[p] = "create" /\ at[p] = "create_poll" /\ at'[p] # "create_poll" =>
            \/ at'[p] = "create_clone" /\ Shown(p, "invitation-accepted")'
            \/ at'[p] = "returned" /\ attempts[p] = 120 /\ requests'[p] = requests[p]]_vars

\* The loop ran out after 120 checks, every sixth of which at least threw (no
\* progress line was printed), and the command returned without the clone.
C30_TimedOutAfterThrowingChecks ==
  \E p \in procs :
    /\ command[p] = "create"
    /\ Shown(p, "invitation-timeout")
    /\ attempts[p] = 120
    /\ ~Shown(p, "still-waiting")
    /\ ~DidLocally(p, "git clone")

====
